---- MODULE Spec2Model ----
(***************************************************************************)
(* Frozen-lake Q-learning with human interventions.                        *)
(*                                                                         *)
(* useQLearning      : Q-table, SimpleRNG, chooseAction / announcements,   *)
(*                     updateQValue                                        *)
(* interpretationRules: suggestion / reset / interrupt / impede            *)
(* useIntervention   : applyIntervention, intervention history             *)
(* useGameEngine     : agent state, pending action, step, timers           *)
(* TrainingPage      : wiring of the three hooks                           *)
(*                                                                         *)
(* Q-values are JavaScript numbers; they are modelled as exact decimals.   *)
(***************************************************************************)
EXTENDS Integers, Sequences, FiniteSets, TLC

VARIABLES
    mapDesc,             \* config.mapDesc: tuple of rows, each a tuple of cell codes
    lp,                  \* useQLearning learningParams
    qtable,              \* useQLearning qtable
    rng,                 \* SimpleRNG.seed (rngRef)
    actionHistory,       \* actionHistoryRef: state -> announced action info
    agentState,          \* useGameEngine agentState
    gameStatus,          \* useGameEngine gameStatus
    gameStats,           \* useGameEngine gameStats
    isDragging,          \* useGameEngine isDragging
    episodeStats,        \* episodeStatsRef
    successCount,        \* successCountRef
    pendingAction,       \* pendingActionRef
    timers,              \* setTimeout callbacks not yet run, in registration order
    interventionRule,    \* useIntervention interventionRule
    interventionHistory, \* useIntervention interventionHistory
    isIntervening,       \* useIntervention isIntervening
    dragStartState,      \* FrozenLakeBoard dragStartState (-1 when not dragging)
    budget,              \* executed steps, interventions and control clicks so far
    episodeLog,          \* cell kind each episode counted in gameStats.episode ended on
    lastOp               \* observation of the last operation

vars == <<mapDesc, lp, qtable, rng, actionHistory, agentState, gameStatus, gameStats,
          isDragging, episodeStats, successCount, pendingAction, timers,
          interventionRule, interventionHistory, isIntervening, dragStartState,
          budget, episodeLog, lastOp>>

(***************************************************************************)
(* Exact arithmetic.  Ratios of small integers (success rate, random       *)
(* draws) are pairs <<n, d>> in lowest terms.  Q-values, rewards and the   *)
(* learning rates are finite decimals sign * mag * Base^(-exp), with mag a *)
(* little-endian sequence of limbs, so that no product leaves 32 bits.     *)
(***************************************************************************)
Abs(x) == IF x < 0 THEN -x ELSE x

Sgn(x) == IF x < 0 THEN -1 ELSE IF x > 0 THEN 1 ELSE 0

RECURSIVE GCD(_, _)
GCD(a, b) == IF b = 0 THEN a ELSE GCD(b, a % b)

Norm(n, d) == LET g == GCD(Abs(n), d) IN <<n \div g, d \div g>>

RatioLess(x, y) == x[1] * y[2] < y[1] * x[2]

Base == 100 * 100

Limb(m, i) == IF i <= Len(m) THEN m[i] ELSE 0

RECURSIVE MagTrim(_)
MagTrim(m) ==
    IF Len(m) > 0 /\ m[Len(m)] = 0 THEN MagTrim(SubSeq(m, 1, Len(m) - 1)) ELSE m

RECURSIVE MagAddFrom(_, _, _, _)
MagAddFrom(a, b, i, carry) ==
    IF i > Len(a) /\ i > Len(b)
    THEN (IF carry = 0 THEN << >> ELSE <<carry>>)
    ELSE LET t == Limb(a, i) + Limb(b, i) + carry
         IN  <<t % Base>> \o MagAddFrom(a, b, i + 1, t \div Base)

MagAdd(a, b) == MagAddFrom(a, b, 1, 0)

RECURSIVE MagSubFrom(_, _, _, _)
MagSubFrom(a, b, i, borrow) ==
    IF i > Len(a)
    THEN << >>
    ELSE LET t == Limb(a, i) - Limb(b, i) - borrow
         IN  <<(t + Base) % Base>> \o MagSubFrom(a, b, i + 1, IF t < 0 THEN 1 ELSE 0)

\* a - b for a >= b
MagSub(a, b) == MagTrim(MagSubFrom(a, b, 1, 0))

RECURSIVE MagCmpAt(_, _, _)
MagCmpAt(a, b, i) ==
    IF i = 0 THEN 0
    ELSE IF a[i] < b[i] THEN -1
    ELSE IF a[i] > b[i] THEN 1
    ELSE MagCmpAt(a, b, i - 1)

MagCmp(a, b) ==
    IF Len(a) < Len(b) THEN -1
    ELSE IF Len(a) > Len(b) THEN 1
    ELSE MagCmpAt(a, b, Len(a))

RECURSIVE MagMulLimbFrom(_, _, _, _)
MagMulLimbFrom(a, d, i, carry) ==
    IF i > Len(a)
    THEN (IF carry = 0 THEN << >> ELSE <<carry>>)
    ELSE LET t == a[i] * d + carry
         IN  <<t % Base>> \o MagMulLimbFrom(a, d, i + 1, t \div Base)

RECURSIVE MagMulFrom(_, _, _)
MagMulFrom(a, b, i) ==
    IF i > Len(b)
    THEN << >>
    ELSE MagAdd(MagMulLimbFrom(a, b[i], 1, 0), <<0>> \o MagMulFrom(a, b, i + 1))

MagMul(a, b) == MagTrim(MagMulFrom(a, b, 1))

DZero == [sign |-> 0, mag |-> << >>, exp |-> 0]

\* canonical form: no leading zero limb, no trailing zero limb while exp > 0
RECURSIVE DNorm(_, _, _)
DNorm(sign, mag, exp) ==
    IF Len(mag) = 0 THEN DZero
    ELSE IF exp > 0 /\ mag[1] = 0 THEN DNorm(sign, Tail(mag), exp - 1)
    ELSE [sign |-> sign, mag |-> mag, exp |-> exp]

\* the integer n
R(n) == DNorm(Sgn(n), MagTrim(<<Abs(n) % Base, Abs(n) \div Base>>), 0)

\* the decimal n / 10000
Dec(n) == DNorm(Sgn(n), MagTrim(<<Abs(n) % Base, Abs(n) \div Base>>), 1)

Scaled(x, e) == [i \in 1 .. e - x.exp |-> 0] \o x.mag

RNeg(x) == [x EXCEPT !.sign = -@]

RAdd(x, y) ==
    LET e == IF x.exp > y.exp THEN x.exp ELSE y.exp
        a == Scaled(x, e)
        b == Scaled(y, e)
        c == MagCmp(a, b)
    IN  IF x.sign = 0 THEN y
        ELSE IF y.sign = 0 THEN x
        ELSE IF x.sign = y.sign THEN DNorm(x.sign, MagAdd(a, b), e)
        ELSE IF c = 0 THEN DZero
        ELSE IF c > 0 THEN DNorm(x.sign, MagSub(a, b), e)
        ELSE DNorm(y.sign, MagSub(b, a), e)

RSub(x, y) == RAdd(x, RNeg(y))

RMul(x, y) ==
    IF x.sign = 0 \/ y.sign = 0
    THEN DZero
    ELSE DNorm(x.sign * y.sign, MagMul(x.mag, y.mag), x.exp + y.exp)

RLess(x, y) == RSub(x, y).sign < 0

RMax2(x, y) == IF RLess(x, y) THEN y ELSE x

(***************************************************************************)
(* Types                                                                   *)
(***************************************************************************)
Actions == 0 .. 3                  \* 0 Left, 1 Down, 2 Right, 3 Up

RuleNames == {"suggestion", "reset", "interrupt", "impede"}

\* Math.max(...row) over the four action entries of a row
MaxOfRow(row) == RMax2(RMax2(row[0], row[1]), RMax2(row[2], row[3]))

\* Array.from({length: stateSize}, () => Array.from({length: actionSize}, () => 0))
ZeroTable(stateSize) == [s \in 0 .. stateSize - 1 |-> [a \in Actions |-> R(0)]]

(***************************************************************************)
(* useQLearning: updateQValue                                              *)
(***************************************************************************)
\* updateQValue with the maximum taken over the actions available in newState only
updateQValueAvailableMax(q, params, state, action, reward, newState) ==
    LET row == newState \div params.ncol
        col == newState % params.ncol
        avail == {a \in Actions : CASE a = 0 -> col > 0
                                    [] a = 1 -> row < params.nrow - 1
                                    [] a = 2 -> col < params.ncol - 1
                                    [] a = 3 -> row > 0}
        best      == CHOOSE a \in avail : \A b \in avail : ~RLess(q[newState][a], q[newState][b])
        currentQ  == q[state][action]
        maxNextQ  == q[newState][best]
        newQValue == RAdd(currentQ,
                          RMul(params.learningRate,
                               RSub(RAdd(reward, RMul(params.gamma, maxNextQ)), currentQ)))
    IN  [q EXCEPT ![state][action] = newQValue]

\* updateQValue that also writes the new value into row newState
updateQValueTwoCells(q, params, state, action, reward, newState) ==
    LET currentQ  == q[state][action]
        maxNextQ  == MaxOfRow(q[newState])
        newQValue == RAdd(currentQ,
                          RMul(params.learningRate,
                               RSub(RAdd(reward, RMul(params.gamma, maxNextQ)), currentQ)))
    IN  [q EXCEPT ![state][action] = newQValue, ![newState][action] = newQValue]

\* the table setQTable installs: copy, then one cell rewritten
updateQValue(q, params, state, action, reward, newState) ==
    LET currentQ  == q[state][action]
        maxNextQ  == MaxOfRow(q[newState])
        newQValue == RAdd(currentQ,
                          RMul(params.learningRate,
                               RSub(RAdd(reward, RMul(params.gamma, maxNextQ)), currentQ)))
    IN  [q EXCEPT ![state][action] = newQValue]

(***************************************************************************)
(* interpretationRules                                                     *)
(***************************************************************************)
\* the direction inferred column first, whatever the row difference
actionToUpdateColumnFirst(p) ==
    LET oldRow == p.state \div p.ncol
        oldCol == p.state % p.ncol
        newRow == p.newState \div p.ncol
        newCol == p.newState % p.ncol
    IN  IF newCol > oldCol THEN 2
        ELSE IF newCol < oldCol THEN 0
        ELSE IF newRow > oldRow THEN 1
        ELSE 3

\* the direction inferred from the rows alone
actionToUpdateVertical(p) ==
    IF p.newState \div p.ncol > p.state \div p.ncol THEN 1 ELSE 3

\* the direction suggestionRule infers from the state -> newState geometry
actionToUpdate(p) ==
    LET oldRow == p.state \div p.ncol
        oldCol == p.state % p.ncol
        newRow == p.newState \div p.ncol
        newCol == p.newState % p.ncol
        rowDiff == newRow - oldRow
        colDiff == newCol - oldCol
    IN  IF p.nrow = 1
        THEN (IF colDiff > 0 THEN 2 ELSE 0)
        ELSE IF Abs(colDiff) > Abs(rowDiff)
             THEN (IF colDiff > 0 THEN 2 ELSE 0)
             ELSE (IF rowDiff > 0 THEN 1 ELSE 3)

\* suggestionRule with the transition's reward in place of the constant 1
suggestionRuleRealReward(q, p) ==
    LET dir       == actionToUpdate(p)
        currentQ  == q[p.state][dir]
        maxNextQ  == MaxOfRow(q[p.newState])
        newQValue == RAdd(currentQ,
                          RMul(p.learningRate,
                               RSub(RAdd(p.reward, RMul(p.gamma, maxNextQ)), currentQ)))
    IN  [q EXCEPT ![p.state][dir] = newQValue]

suggestionRule(q, p) ==
    LET dir       == actionToUpdate(p)
        currentQ  == q[p.state][dir]
        maxNextQ  == MaxOfRow(q[p.newState])
        newQValue == RAdd(currentQ,
                          RMul(p.learningRate,
                               RSub(RAdd(R(1), RMul(p.gamma, maxNextQ)), currentQ)))
    IN  [q EXCEPT ![p.state][dir] = newQValue]

\* resetRule without the discount factor
resetRuleNoGamma(q, p) ==
    LET currentQ  == q[p.state][p.action]
        maxNextQ  == MaxOfRow(q[p.newState])
        newQValue == RAdd(currentQ,
                          RMul(p.learningRate,
                               RSub(RAdd(p.reward, maxNextQ), currentQ)))
    IN  [q EXCEPT ![p.state][p.action] = newQValue]

resetRule(q, p) ==
    LET currentQ  == q[p.state][p.action]
        maxNextQ  == MaxOfRow(q[p.newState])
        newQValue == RAdd(currentQ,
                          RMul(p.learningRate,
                               RSub(RAdd(p.reward, RMul(p.gamma, maxNextQ)), currentQ)))
    IN  [q EXCEPT ![p.state][p.action] = newQValue]

\* interruptRule that still learns from the discarded timestep
interruptRuleUpdates(q, p) ==
    LET currentQ  == q[p.state][p.action]
        maxNextQ  == MaxOfRow(q[p.newState])
        newQValue == RAdd(currentQ,
                          RMul(p.learningRate,
                               RSub(RAdd(p.reward, RMul(p.gamma, maxNextQ)), currentQ)))
    IN  [q EXCEPT ![p.state][p.action] = newQValue]

interruptRule(q, p) == q

\* impedeRule with the transition's reward in place of the constant -1
impedeRuleRealReward(q, p) ==
    LET currentQ  == q[p.state][p.action]
        maxNextQ  == MaxOfRow(q[p.newState])
        newQValue == RAdd(currentQ,
                          RMul(p.learningRate,
                               RSub(RAdd(p.reward, RMul(p.gamma, maxNextQ)), currentQ)))
    IN  [q EXCEPT ![p.state][p.action] = newQValue]

impedeRule(q, p) ==
    LET currentQ  == q[p.state][p.action]
        maxNextQ  == MaxOfRow(q[p.newState])
        newQValue == RAdd(currentQ,
                          RMul(p.learningRate,
                               RSub(RAdd(R(-1), RMul(p.gamma, maxNextQ)), currentQ)))
    IN  [q EXCEPT ![p.state][p.action] = newQValue]

applyInterventionRule(ruleName, q, p) ==
    CASE ruleName = "suggestion" -> suggestionRule(q, p)
      [] ruleName = "reset"      -> resetRule(q, p)
      [] ruleName = "interrupt"  -> interruptRule(q, p)
      [] ruleName = "impede"     -> impedeRule(q, p)

(***************************************************************************)
(* gameConfig / grid geometry                                              *)
(***************************************************************************)
nrowOf(m) == Len(m)
ncolOf(m) == Len(m[1])
stateSizeOf(m) == nrowOf(m) * ncolOf(m)

\* config.mapDesc[row][col] for a state index
cellType(m, state) == m[(state \div ncolOf(m)) + 1][(state % ncolOf(m)) + 1]

isTerminalState(m, state) == cellType(m, state) \in {"H", "G"}

\* REWARD_SCHEDULES.DEFAULT = [hole, goal, frozen]
rewardSchedule == <<-10, 10, 0>>

calculateReward(m, state) ==
    CASE cellType(m, state) = "H" -> rewardSchedule[1]
      [] cellType(m, state) = "G" -> rewardSchedule[2]
      [] OTHER -> rewardSchedule[3]

\* first cell classified S in row-major order, 0 when there is none
getStartState(m) ==
    LET starts == {st \in 0 .. stateSizeOf(m) - 1 : cellType(m, st) = "S"}
    IN  IF starts = {} THEN 0
        ELSE CHOOSE st \in starts : \A o \in starts : st <= o

\* a move on the row-major index alone: Left and Right run on into the neighbouring row
moveResultWrap(m, currentState, action) ==
    LET ncol == ncolOf(m)
        last == stateSizeOf(m) - 1
    IN  CASE action = 0 -> IF currentState > 0 THEN currentState - 1 ELSE currentState
          [] action = 1 -> IF currentState + ncol <= last THEN currentState + ncol ELSE currentState
          [] action = 2 -> IF currentState < last THEN currentState + 1 ELSE currentState
          [] action = 3 -> IF currentState - ncol >= 0 THEN currentState - ncol ELSE currentState

\* the move computed by executePendingAction: stays put at a border
moveResult(m, currentState, action) ==
    LET ncol == ncolOf(m)
        nrow == nrowOf(m)
    IN  CASE action = 0 -> IF currentState % ncol > 0 THEN currentState - 1 ELSE currentState
          [] action = 1 -> IF currentState \div ncol < nrow - 1 THEN currentState + ncol ELSE currentState
          [] action = 2 -> IF currentState % ncol < ncol - 1 THEN currentState + 1 ELSE currentState
          [] action = 3 -> IF currentState \div ncol > 0 THEN currentState - ncol ELSE currentState

(***************************************************************************)
(* useQLearning: SimpleRNG, chooseAction, announcements                    *)
(***************************************************************************)
RngModulus == 233280

\* seed = (seed * 9301 + 49297) % 233280, with 9301 = 93 * 100 + 1 to stay in 32 bits
rngNext(seed) == ((((seed * 93) % RngModulus) * 100) + seed + 49297) % RngModulus

\* a choice that always takes the first element
choiceFirst(seed, len) == 1

\* choice(array): index floor(uniform(0, length)) after one generator step
choiceIndex(seed, len) == ((rngNext(seed) * len) \div RngModulus) + 1

getAvailableActions(params, state) ==
    LET row == state \div params.ncol
        col == state % params.ncol
        Ok(a) == CASE a = 0 -> col > 0
                   [] a = 1 -> row < params.nrow - 1
                   [] a = 2 -> col < params.ncol - 1
                   [] a = 3 -> row > 0
    IN  SelectSeq(<<0, 1, 2, 3>>, Ok)

\* every available action taken for a best one
bestActionsAny(q, state, availableActions) == availableActions

\* the available actions whose Q-value is the maximum among the available ones
bestActionsOf(q, state, availableActions) ==
    LET IsBest(a) == \A i \in 1 .. Len(availableActions) :
                        ~RLess(q[state][a], q[state][availableActions[i]])
    IN  SelectSeq(availableActions, IsBest)

\* a tie-break that draws only when there is a tie
getBestActionDrawOnTie(q, state, availableActions, seed) ==
    IF Len(availableActions) = 0
    THEN [action |-> 0, rng |-> seed]
    ELSE LET bestActions == bestActionsOf(q, state, availableActions)
         IN  IF Len(bestActions) = 1
             THEN [action |-> bestActions[1], rng |-> seed]
             ELSE [action |-> bestActions[choiceIndex(seed, Len(bestActions))],
                   rng    |-> rngNext(seed)]

\* returns the action and the generator state after the tie-break draw
getBestActionFromAvailable(q, state, availableActions, seed) ==
    IF Len(availableActions) = 0
    THEN [action |-> 0, rng |-> seed]
    ELSE LET bestActions == bestActionsOf(q, state, availableActions)
         IN  [action |-> bestActions[choiceIndex(seed, Len(bestActions))],
              rng    |-> rngNext(seed)]

NoInfo == [set |-> FALSE]

\* a chooseAction that answers from the announcement it already holds for the state,
\* drawing nothing: its result depends on calls made before the generator was seeded
chooseActionCached(q, params, seed, history, state) ==
    LET availableActions == getAvailableActions(params, state)
        seed1        == rngNext(seed)
        randomValue  == Norm(seed1, RngModulus)
        isExploration == RatioLess(randomValue, params.epsilon)
        explore == [action |-> availableActions[choiceIndex(seed1, Len(availableActions))],
                    rng    |-> rngNext(seed1)]
        picked  == IF isExploration THEN explore
                   ELSE getBestActionFromAvailable(q, state, availableActions, seed1)
        actionInfo == [set |-> TRUE, action |-> picked.action,
                       type |-> IF isExploration THEN "exploration" ELSE "exploitation",
                       randomValue |-> randomValue, state |-> state]
    IN  IF Len(availableActions) = 0
        THEN [action |-> 0, rng |-> seed, actionHistory |-> history]
        ELSE IF history[state].set
        THEN [action |-> history[state].action, rng |-> seed, actionHistory |-> history]
        ELSE [action |-> picked.action, rng |-> picked.rng,
              actionHistory |-> [history EXCEPT ![state] = actionInfo]]

\* a chooseAction that records every decision as exploitation
chooseActionLabelGreedy(q, params, seed, history, state) ==
    LET availableActions == getAvailableActions(params, state)
        seed1        == rngNext(seed)
        randomValue  == Norm(seed1, RngModulus)
        isExploration == RatioLess(randomValue, params.epsilon)
        explore == [action |-> availableActions[choiceIndex(seed1, Len(availableActions))],
                    rng    |-> rngNext(seed1)]
        picked  == IF isExploration THEN explore
                   ELSE getBestActionFromAvailable(q, state, availableActions, seed1)
        actionInfo == [set |-> TRUE, action |-> picked.action, type |-> "exploitation",
                       randomValue |-> randomValue, state |-> state]
    IN  IF Len(availableActions) = 0
        THEN [action |-> 0, rng |-> seed, actionHistory |-> history]
        ELSE [action |-> picked.action, rng |-> picked.rng,
              actionHistory |-> [history EXCEPT ![state] = actionInfo]]

\* chooseAction as a function of the closure's table q and the refs:
\* returns the action, the generator state and the announcement map afterwards
chooseAction(q, params, seed, history, state) ==
    LET availableActions == getAvailableActions(params, state)
        seed1        == rngNext(seed)
        randomValue  == Norm(seed1, RngModulus)
        isExploration == RatioLess(randomValue, params.epsilon)
        explore == [action |-> availableActions[choiceIndex(seed1, Len(availableActions))],
                    rng    |-> rngNext(seed1)]
        picked  == IF isExploration THEN explore
                   ELSE getBestActionFromAvailable(q, state, availableActions, seed1)
        actionInfo == [set |-> TRUE, action |-> picked.action,
                       type |-> IF isExploration THEN "exploration" ELSE "exploitation",
                       randomValue |-> randomValue, state |-> state]
    IN  IF Len(availableActions) = 0
        THEN [action |-> 0, rng |-> seed, actionHistory |-> history]
        ELSE [action |-> picked.action, rng |-> picked.rng,
              actionHistory |-> [history EXCEPT ![state] = actionInfo]]

getAnnouncedAction(history, state) == history[state]

clearActionHistory(history) == [st \in DOMAIN history |-> NoInfo]

(***************************************************************************)
(* useQLearning: analysis tools                                            *)
(***************************************************************************)
\* returns the action, its Q-value and the generator state after the call: the best
\* actions are told apart by rngRef.current.choice
getBestActionForState(q, params, seed, state) ==
    LET availableActions == getAvailableActions(params, state)
        bestActions == bestActionsOf(q, state, availableActions)
    IN  IF Len(availableActions) = 0
        THEN [action |-> 0, qValue |-> R(0), rng |-> seed]
        ELSE [action |-> bestActions[choiceIndex(seed, Len(bestActions))],
              qValue |-> q[state][bestActions[1]],
              rng    |-> rngNext(seed)]

\* qtable.map((_, state) => getBestActionForState(state).action), from row `state` on
RECURSIVE getPolicyFrom(_, _, _, _)
getPolicyFrom(q, params, seed, state) ==
    IF state \notin DOMAIN q
    THEN [policy |-> << >>, rng |-> seed]
    ELSE LET best == getBestActionForState(q, params, seed, state)
             rest == getPolicyFrom(q, params, best.rng, state + 1)
         IN  [policy |-> <<best.action>> \o rest.policy, rng |-> rest.rng]

getPolicy(q, params, seed) == getPolicyFrom(q, params, seed, 0)

\* qtable.flat()[i]
FlatCell(q, i) == q[i \div 4][i % 4]

\* allQValues.reduce((sum, val) => sum + val, 0) over the cells i .. count - 1
RECURSIVE SumCells(_, _, _)
SumCells(q, i, count) ==
    IF i >= count THEN R(0) ELSE RAdd(FlatCell(q, i), SumCells(q, i + 1, count))

\* allQValues.reduce((sum, val) => sum + Math.pow(val - average, 2), 0) over the cells
\* i .. count - 1, scaled by count^2: the sum of (count * val - total)^2
RECURSIVE SumSquares(_, _, _, _)
SumSquares(q, total, i, count) ==
    IF i >= count THEN R(0)
    ELSE LET d == RSub(RMul(R(count), FlatCell(q, i)), total)
         IN  RAdd(RMul(d, d), SumSquares(q, total, i + 1, count))

\* min, max and average of all cells and their spread; the average is the pair
\* <<sum, count>>, and std is given by its square, the variance, as the pair
\* <<sum of (count * val - sum)^2, count^3>>
getQTableStats(q) ==
    LET count == 4 * Cardinality(DOMAIN q)
        cells == {FlatCell(q, i) : i \in 0 .. count - 1}
        total == SumCells(q, 0, count)
    IN  [min |-> CHOOSE v \in cells : \A w \in cells : ~RLess(w, v),
         max |-> CHOOSE v \in cells : \A w \in cells : ~RLess(v, w),
         average |-> <<total, count>>,
         std |-> <<SumSquares(q, total, 0, count), count * count * count>>]

(***************************************************************************)
(* The hooks' handlers.  A handler is an operator on program states (a     *)
(* record with one field per variable): c is the state as of the render    *)
(* whose closure the handler is (what it reads from React state), s the    *)
(* state it updates (refs and functional setState).  Every handler is      *)
(* followed by a render, after which effects run.                          *)
(***************************************************************************)
Cur == [mapDesc |-> mapDesc, lp |-> lp, qtable |-> qtable, rng |-> rng,
        actionHistory |-> actionHistory, agentState |-> agentState,
        gameStatus |-> gameStatus, gameStats |-> gameStats, isDragging |-> isDragging,
        episodeStats |-> episodeStats, successCount |-> successCount,
        pendingAction |-> pendingAction, timers |-> timers,
        interventionRule |-> interventionRule,
        interventionHistory |-> interventionHistory, isIntervening |-> isIntervening,
        dragStartState |-> dragStartState]

NoPending == [set |-> FALSE]
NoAction == -1          \* nextAction: null
NoDrag == -1            \* dragStartState: null

FreshAgentState(m, lastReward) ==
    [currentState |-> getStartState(m), totalReward |-> 0, steps |-> 0,
     lastReward |-> lastReward, isDone |-> FALSE, nextAction |-> NoAction]

FreshEpisodeStats == [episodeReward |-> 0, episodeSteps |-> 0, episodeInterventions |-> 0]

\* setTimeout(callback, delay): kind names the callback, q is the Q-table of the
\* closure the callback was created in
Timer(kind, delay, state, q, reward) ==
    [kind |-> kind, delay |-> delay, state |-> state, q |-> q, reward |-> reward]

\* selectNextAction that asks chooseAction a second time for the action it stores
selectNextActionResample(s, q, state) ==
    IF isTerminalState(s.mapDesc, state)
    THEN [s EXCEPT !.agentState.nextAction = NoAction, !.pendingAction = NoPending]
    ELSE LET ch  == chooseAction(q, s.lp, s.rng, s.actionHistory, state)
             ch2 == chooseAction(q, s.lp, ch.rng, ch.actionHistory, state)
         IN  [s EXCEPT !.rng = ch2.rng,
                       !.actionHistory = ch.actionHistory,
                       !.pendingAction = [set |-> TRUE, state |-> state, action |-> ch2.action],
                       !.agentState.nextAction = ch2.action]

\* useGameEngine selectNextAction, with q the table its chooseAction closure holds
selectNextAction(s, q, state) ==
    IF isTerminalState(s.mapDesc, state)
    THEN [s EXCEPT !.agentState.nextAction = NoAction, !.pendingAction = NoPending]
    ELSE LET ch == chooseAction(q, s.lp, s.rng, s.actionHistory, state)
         IN  [s EXCEPT !.rng = ch.rng,
                       !.actionHistory = ch.actionHistory,
                       !.pendingAction = [set |-> TRUE, state |-> state, action |-> ch.action],
                       !.agentState.nextAction = ch.action]

\* TrainingPage handleStep (the onStep callback)
handleStep(q, params, state, action, reward, newState) ==
    updateQValue(q, params, state, action, reward, newState)

\* TrainingPage handleEpisodeEnd (the onEpisodeEnd callback): clears the announcements
handleEpisodeEnd(s) == [s EXCEPT !.actionHistory = clearActionHistory(s.actionHistory)]

\* the statistics setGameStats installs at an episode end
episodeEndStats(s, reward) ==
    LET totalEpisodes == s.gameStats.episode + 1
    IN  [episode       |-> totalEpisodes,
         totalReward   |-> s.gameStats.totalReward + s.episodeStats.episodeReward,
         steps         |-> s.gameStats.steps + s.episodeStats.episodeSteps,
         lastReward    |-> reward,
         interventions |-> s.gameStats.interventions + s.episodeStats.episodeInterventions,
         successRate   |-> Norm(s.successCount, totalEpisodes)]

\* executePendingAction without the check that the pending action was announced for
\* the agent's current state
executePendingActionStale(c, s) ==
    IF \/ ~s.pendingAction.set
       \/ s.agentState.isDone
    THEN s
    ELSE
    LET currentState == s.agentState.currentState
        action   == s.pendingAction.action
        newState == moveResult(s.mapDesc, currentState, action)
        reward   == calculateReward(s.mapDesc, newState)
        isDone   == isTerminalState(s.mapDesc, newState)
        q1 == updateQValue(s.qtable, s.lp, currentState, action, R(reward), newState)
        q2 == handleStep(q1, s.lp, currentState, action, R(reward), newState)
        s1 == [s EXCEPT
                 !.qtable = q2,
                 !.agentState = [currentState |-> newState,
                                 totalReward  |-> s.agentState.totalReward + reward,
                                 steps        |-> s.agentState.steps + 1,
                                 lastReward   |-> reward,
                                 isDone       |-> isDone,
                                 nextAction   |-> NoAction],
                 !.episodeStats.episodeReward = @ + reward,
                 !.episodeStats.episodeSteps = @ + 1,
                 !.pendingAction = NoPending]
        success == cellType(s.mapDesc, newState) = "G"
        s2 == [s1 EXCEPT !.successCount = IF success THEN @ + 1 ELSE @]
        s3 == handleEpisodeEnd([s2 EXCEPT !.gameStats = episodeEndStats(s2, reward)])
    IN  IF isDone
        THEN IF s.gameStatus.isRunning /\ ~s.gameStatus.isPaused
             THEN [s3 EXCEPT !.timers = Append(@, Timer("episodeReset", 1000, 0, c.qtable, 0))]
             ELSE s3
        ELSE [s1 EXCEPT !.timers = Append(@, Timer("select", 0, newState, c.qtable, 0))]

\* useGameEngine executePendingAction
executePendingAction(c, s) ==
    IF \/ ~s.pendingAction.set
       \/ s.pendingAction.state # s.agentState.currentState
       \/ s.agentState.isDone
    THEN s
    ELSE
    LET currentState == s.agentState.currentState
        action   == s.pendingAction.action
        newState == moveResult(s.mapDesc, currentState, action)
        reward   == calculateReward(s.mapDesc, newState)
        isDone   == isTerminalState(s.mapDesc, newState)
        q1 == updateQValue(s.qtable, s.lp, currentState, action, R(reward), newState)
        q2 == handleStep(q1, s.lp, currentState, action, R(reward), newState)
        s1 == [s EXCEPT
                 !.qtable = q2,
                 !.agentState = [currentState |-> newState,
                                 totalReward  |-> s.agentState.totalReward + reward,
                                 steps        |-> s.agentState.steps + 1,
                                 lastReward   |-> reward,
                                 isDone       |-> isDone,
                                 nextAction   |-> NoAction],
                 !.episodeStats.episodeReward = @ + reward,
                 !.episodeStats.episodeSteps = @ + 1,
                 !.pendingAction = NoPending]
        success == cellType(s.mapDesc, newState) = "G"
        s2 == [s1 EXCEPT !.successCount = IF success THEN @ + 1 ELSE @]
        s3 == handleEpisodeEnd([s2 EXCEPT !.gameStats = episodeEndStats(s2, reward)])
    IN  IF isDone
        THEN IF s.gameStatus.isRunning /\ ~s.gameStatus.isPaused
             THEN [s3 EXCEPT !.timers = Append(@, Timer("episodeReset", 1000, 0, c.qtable, 0))]
             ELSE s3
        ELSE [s1 EXCEPT !.timers = Append(@, Timer("select", 0, newState, c.qtable, 0))]

(***************************************************************************)
(* useIntervention                                                         *)
(***************************************************************************)
\* the InterventionParams applyIntervention builds from the announced action
interventionParams(c, actionInfo, fromState, toState, reward) ==
    [state |-> fromState, reward |-> R(reward), newState |-> toState,
     action |-> actionInfo.action,
     learningRate |-> c.lp.learningRate, gamma |-> c.lp.gamma,
     nrow |-> c.lp.nrow, ncol |-> c.lp.ncol]

\* applyIntervention that samples a fresh action instead of reading the announcement
applyInterventionResample(c, s, fromState, toState, reward) ==
    LET announced  == getAnnouncedAction(s.actionHistory, fromState)
        ch         == chooseAction(c.qtable, c.lp, s.rng, s.actionHistory, fromState)
        actionInfo == ch.actionHistory[fromState]
        p          == interventionParams(c, actionInfo, fromState, toState, reward)
        newQTable  == applyInterventionRule(c.interventionRule, c.qtable, p)
        interventionRecord ==
            [fromState |-> fromState, toState |-> toState, rule |-> c.interventionRule,
             reward |-> reward, action |-> actionInfo.action, actionType |-> actionInfo.type]
    IN  IF fromState < 0 \/ fromState >= Cardinality(DOMAIN c.qtable)
        THEN s
        ELSE IF toState < 0 \/ toState >= Cardinality(DOMAIN c.qtable)
        THEN s
        ELSE IF c.isIntervening
        THEN s
        ELSE IF ~announced.set
        THEN s
        ELSE [s EXCEPT !.rng = ch.rng,
                       !.actionHistory = ch.actionHistory,
                       !.qtable = newQTable,
                       !.interventionHistory = Append(@, interventionRecord)]

\* applyIntervention that puts the new record in front of the history
applyInterventionPrepend(c, s, fromState, toState, reward) ==
    LET actionInfo == getAnnouncedAction(s.actionHistory, fromState)
        p          == interventionParams(c, actionInfo, fromState, toState, reward)
        newQTable  == applyInterventionRule(c.interventionRule, c.qtable, p)
        interventionRecord ==
            [fromState |-> fromState, toState |-> toState, rule |-> c.interventionRule,
             reward |-> reward, action |-> actionInfo.action, actionType |-> actionInfo.type]
    IN  IF fromState < 0 \/ fromState >= Cardinality(DOMAIN c.qtable)
        THEN s
        ELSE IF toState < 0 \/ toState >= Cardinality(DOMAIN c.qtable)
        THEN s
        ELSE IF c.isIntervening
        THEN s
        ELSE IF ~actionInfo.set
        THEN s
        ELSE [s EXCEPT !.qtable = newQTable,
                       !.interventionHistory = <<interventionRecord>> \o @]

\* useIntervention applyIntervention (called without additionalParams)
applyIntervention(c, s, fromState, toState, reward) ==
    LET actionInfo == getAnnouncedAction(s.actionHistory, fromState)
        p          == interventionParams(c, actionInfo, fromState, toState, reward)
        newQTable  == applyInterventionRule(c.interventionRule, c.qtable, p)
        interventionRecord ==
            [fromState |-> fromState, toState |-> toState, rule |-> c.interventionRule,
             reward |-> reward, action |-> actionInfo.action, actionType |-> actionInfo.type]
    IN  IF fromState < 0 \/ fromState >= Cardinality(DOMAIN c.qtable)
        THEN s
        ELSE IF toState < 0 \/ toState >= Cardinality(DOMAIN c.qtable)
        THEN s
        ELSE IF c.isIntervening
        THEN s
        ELSE IF ~actionInfo.set
        THEN s
        ELSE [s EXCEPT !.qtable = newQTable,
                       !.interventionHistory = Append(@, interventionRecord)]

\* useIntervention setInterventionRuleWithReset
setInterventionRule(c, s, newRule) ==
    IF newRule # c.interventionRule THEN [s EXCEPT !.interventionRule = newRule] ELSE s

(***************************************************************************)
(* useGameEngine: interventions, controls                                  *)
(***************************************************************************)
\* useGameEngine setAgentStateManually; TrainingPage passes no applyIntervention
\* prop, so the call at line 379 is skipped.  The two timers of one call are
\* kept in deadline order.
setAgentStateManually(c, s, newState) ==
    IF c.gameStatus.isIntervening
    THEN s
    ELSE
    LET reward == calculateReward(s.mapDesc, newState)
        isDone == isTerminalState(s.mapDesc, newState)
        cell   == cellType(s.mapDesc, newState)
        s1 == [s EXCEPT
                 !.gameStatus.isIntervening = TRUE,
                 !.pendingAction = NoPending,
                 !.agentState.currentState = newState,
                 !.agentState.totalReward = IF cell # "H" THEN @ + reward ELSE @,
                 !.agentState.lastReward = reward,
                 !.agentState.isDone = isDone,
                 !.agentState.nextAction = NoAction,
                 !.episodeStats.episodeReward = IF cell # "H" THEN @ + reward ELSE @,
                 !.episodeStats.episodeInterventions = @ + 1]
        s2 == [s1 EXCEPT !.successCount = IF cell = "G" THEN @ + 1 ELSE @]
        stats == [episodeEndStats(s2, reward) EXCEPT
                    !.episode = c.gameStats.episode + 1,
                    !.successRate = Norm(s2.successCount, c.gameStats.episode + 1)]
        s3 == handleEpisodeEnd([s2 EXCEPT !.gameStats = stats])
        clearFlag == Timer("clearIntervening", 100, 0, c.qtable, 0)
    IN  IF isDone
        THEN IF c.gameStatus.isRunning
             THEN [s3 EXCEPT !.gameStatus.isRunning = FALSE,
                             !.gameStatus.isPaused = TRUE,
                             !.timers = @ \o <<clearFlag,
                                                Timer("interventionReset", 1500, 0, c.qtable, reward)>>]
             ELSE [s3 EXCEPT !.timers = Append(@, clearFlag)]
        ELSE [s1 EXCEPT !.timers = @ \o <<Timer("select", 100, newState, c.qtable, 0), clearFlag>>]

startDrag(c, s) == [s EXCEPT !.isDragging = TRUE, !.gameStatus.isPaused = TRUE]

endDrag(c, s) == [s EXCEPT !.isDragging = FALSE, !.gameStatus.isPaused = FALSE]

startGame(c, s) ==
    LET s1 == [s EXCEPT !.gameStatus.isRunning = TRUE, !.gameStatus.isPaused = FALSE]
    IN  IF ~c.agentState.isDone
        THEN selectNextAction(s1, c.qtable, c.agentState.currentState)
        ELSE s1

pauseGame(c, s) == [s EXCEPT !.gameStatus.isPaused = TRUE]

resetGame(c, s) ==
    [s EXCEPT !.agentState = FreshAgentState(s.mapDesc, 0),
              !.gameStatus = [isRunning |-> FALSE, isPaused |-> FALSE,
                              isIntervening |-> FALSE, isTraining |-> TRUE],
              !.episodeStats = FreshEpisodeStats,
              !.successCount = 0,
              !.pendingAction = NoPending]

stepGame(c, s) == executePendingAction(c, s)

\* Array.from({length: stateSize}, () => Array.from({length: actionSize}, () => 0))
\* for the sizes of a LearningParams
ZeroTableOf(stateSize, actionSize) ==
    [st \in 0 .. stateSize - 1 |-> [a \in 0 .. actionSize - 1 |-> R(0)]]

\* resetQTable without actionHistoryRef.current.clear()
resetQTableKeepHistory(c, s) ==
    [s EXCEPT !.qtable = ZeroTableOf(c.lp.stateSize, c.lp.actionSize)]

\* useQLearning resetQTable: the sizes are those of the learningParams of the render
\* the callback was made in
resetQTable(c, s) ==
    [s EXCEPT !.qtable = ZeroTableOf(c.lp.stateSize, c.lp.actionSize),
              !.actionHistory = clearActionHistory(s.actionHistory)]

\* useQLearning updateLearningParams: the updater of setLearningParams, run on the
\* latest learningParams; newParams is a Partial<LearningParams>
updateLearningParams(c, s, newParams) ==
    LET prev == s.lp
        updated == [f \in DOMAIN prev |-> IF f \in DOMAIN newParams THEN newParams[f] ELSE prev[f]]
        stateSizeChanged == "stateSize" \in DOMAIN newParams /\ newParams.stateSize # prev.stateSize
        actionSizeChanged == "actionSize" \in DOMAIN newParams /\ newParams.actionSize # prev.actionSize
    IN  IF stateSizeChanged \/ actionSizeChanged
        THEN [s EXCEPT !.lp = updated,
                       !.qtable = ZeroTableOf(updated.stateSize, updated.actionSize),
                       !.actionHistory = clearActionHistory(s.actionHistory)]
        ELSE [s EXCEPT !.lp = updated]

(***************************************************************************)
(* TrainingPage / FrozenLakeBoard handlers                                 *)
(***************************************************************************)
handleAgentDrop(c, s, fromState, toState) ==
    LET reward == calculateReward(s.mapDesc, toState)
    IN  setAgentStateManually(c, applyIntervention(c, s, fromState, toState, reward), toState)

handleReset(c, s) ==
    LET s1 == resetQTable(c, resetGame(c, s))
    IN  [s1 EXCEPT !.actionHistory = clearActionHistory(s1.actionHistory)]

handleMouseDown(c, s, state) ==
    IF state # c.agentState.currentState
    THEN s
    ELSE startDrag(c, [s EXCEPT !.dragStartState = state])

handleGlobalMouseUp(c, s, toState) ==
    IF c.dragStartState = NoDrag
    THEN s
    ELSE LET s1 == IF toState # c.dragStartState
                   THEN handleAgentDrop(c, s, c.dragStartState, toState)
                   ELSE s
         IN  endDrag(c, [s1 EXCEPT !.dragStartState = NoDrag])

(***************************************************************************)
(* Rendering and timers                                                    *)
(***************************************************************************)
\* the effect keyed on [isRunning, isPaused, isDone] (useGameEngine lines 89-93),
\* run after the render that follows a handler
afterRender(pre, post) ==
    LET deps(x) == <<x.gameStatus.isRunning, x.gameStatus.isPaused, x.agentState.isDone>>
    IN  IF /\ deps(pre) # deps(post)
           /\ post.gameStatus.isRunning
           /\ ~post.gameStatus.isPaused
           /\ ~post.agentState.isDone
        THEN selectNextAction(post, post.qtable, post.agentState.currentState)
        ELSE post

\* timer callbacks without the nested auto-restart of an intervention-caused reset
runTimerNoRestart(s, t) ==
    LET start == getStartState(s.mapDesc)
    IN  CASE t.kind = "select" -> selectNextAction(s, t.q, t.state)
          [] t.kind = "episodeReset" ->
                selectNextAction([s EXCEPT !.agentState = FreshAgentState(s.mapDesc, 0),
                                           !.episodeStats = FreshEpisodeStats],
                                 t.q, start)
          [] t.kind = "interventionReset" ->
                [s EXCEPT !.agentState = FreshAgentState(s.mapDesc, t.reward),
                          !.episodeStats = FreshEpisodeStats]
          [] t.kind = "autoRestart" -> s
          [] t.kind = "clearIntervening" -> [s EXCEPT !.gameStatus.isIntervening = FALSE]

\* the callback of a timer, by kind
runTimer(s, t) ==
    LET start == getStartState(s.mapDesc)
    IN  CASE t.kind = "select" -> selectNextAction(s, t.q, t.state)
          [] t.kind = "episodeReset" ->
                selectNextAction([s EXCEPT !.agentState = FreshAgentState(s.mapDesc, 0),
                                           !.episodeStats = FreshEpisodeStats],
                                 t.q, start)
          [] t.kind = "interventionReset" ->
                [s EXCEPT !.agentState = FreshAgentState(s.mapDesc, t.reward),
                          !.episodeStats = FreshEpisodeStats,
                          !.timers = Append(@, Timer("autoRestart", 500, 0, t.q, 0))]
          [] t.kind = "autoRestart" ->
                IF s.gameStatus.isTraining
                THEN selectNextAction([s EXCEPT !.gameStatus.isRunning = TRUE,
                                                !.gameStatus.isPaused = FALSE],
                                      t.q, start)
                ELSE s
          [] t.kind = "clearIntervening" -> [s EXCEPT !.gameStatus.isIntervening = FALSE]

RemoveAt(sq, i) == SubSeq(sq, 1, i - 1) \o SubSeq(sq, i + 1, Len(sq))

\* a timer can run once no timer registered before it has a deadline at or before its own
canFire(tq, i) == \A j \in 1 .. i - 1 : tq[j].delay > tq[i].delay

(***************************************************************************)
(* Bounds and initial state                                                *)
(***************************************************************************)
MaxSteps == 2            \* executed steps per behaviour
MaxInterventions == 2    \* drops onto another cell per behaviour
MaxControls == 3         \* button clicks, rule changes and drags per behaviour
MaxSeed == 2             \* input tables of the rule harness: seeds 0 .. MaxSeed

\* maps of the controller runs, and of the rule harness
Maps == { << <<"H", "S", "F", "G">> >>,
          << <<"S", "F">>, <<"H", "G">> >> }

HarnessMaps == { << <<"S", "F", "G">> >>,
                 << <<"S", "F", "F">>, <<"F", "H", "G">> >> }

\* useQLearning calculatedParams: the defaults, sized from the map
DefaultParams(m) ==
    [learningRate |-> Dec(8000), gamma |-> Dec(9500), epsilon |-> <<1, 10>>,
     stateSize |-> stateSizeOf(m), actionSize |-> 4,
     nrow |-> nrowOf(m), ncol |-> ncolOf(m)]

InitialSeed == 123

\* a table handed to useQLearning as initialState: seed 0 is the zero table
SeedTable(k, stateSize) ==
    [st \in 0 .. stateSize - 1 |-> [a \in Actions |-> R((((st * 4 + a) * k) % 5) - (IF k = 0 THEN 0 ELSE 2))]]

\* (learningRate, gamma) pairs of the rule harness
HarnessRates == { <<Dec(5000), Dec(9000)>>, <<Dec(8000), Dec(9500)>> }

Rewards == {rewardSchedule[i] : i \in 1 .. 3}

InitFor(m, params, q) ==
    /\ mapDesc = m
    /\ lp = params
    /\ qtable = q
    /\ rng = InitialSeed
    /\ actionHistory = [st \in 0 .. stateSizeOf(m) - 1 |-> NoInfo]
    /\ agentState = FreshAgentState(m, 0)
    /\ gameStatus = [isRunning |-> FALSE, isPaused |-> FALSE,
                     isIntervening |-> FALSE, isTraining |-> TRUE]
    /\ gameStats = [episode |-> 0, totalReward |-> 0, steps |-> 0, lastReward |-> 0,
                    interventions |-> 0, successRate |-> <<0, 1>>]
    /\ isDragging = FALSE
    /\ episodeStats = FreshEpisodeStats
    /\ successCount = 0
    /\ pendingAction = NoPending
    /\ timers = << >>
    /\ interventionRule = "suggestion"
    /\ interventionHistory = << >>
    /\ isIntervening = FALSE
    /\ dragStartState = NoDrag
    /\ budget = [steps |-> 0, interventions |-> 0, controls |-> 0]
    /\ episodeLog = << >>
    /\ lastOp = [op |-> "init"]

Init == \E m \in Maps : InitFor(m, DefaultParams(m), ZeroTable(stateSizeOf(m)))

Commit(post) ==
    /\ mapDesc' = post.mapDesc
    /\ lp' = post.lp
    /\ qtable' = post.qtable
    /\ rng' = post.rng
    /\ actionHistory' = post.actionHistory
    /\ agentState' = post.agentState
    /\ gameStatus' = post.gameStatus
    /\ gameStats' = post.gameStats
    /\ isDragging' = post.isDragging
    /\ episodeStats' = post.episodeStats
    /\ successCount' = post.successCount
    /\ pendingAction' = post.pendingAction
    /\ timers' = post.timers
    /\ interventionRule' = post.interventionRule
    /\ interventionHistory' = post.interventionHistory
    /\ isIntervening' = post.isIntervening
    /\ dragStartState' = post.dragStartState

(***************************************************************************)
(* Actions of the controller: user input, the tick source, timers          *)
(***************************************************************************)
Idle == dragStartState = NoDrag      \* the mouse is free to click a button

Spend(field) == budget' = [budget EXCEPT ![field] = @ + 1]

\* Start / Resume button
Start ==
    /\ Idle
    /\ ~gameStatus.isRunning \/ gameStatus.isPaused
    /\ budget.controls < MaxControls
    /\ \E post \in {afterRender(Cur, startGame(Cur, Cur))} : Commit(post)
    /\ Spend("controls")
    /\ lastOp' = [op |-> "start",
                   afterPause |-> lastOp.op = "pause",
                   announcedAtPause |-> IF lastOp.op = "pause" THEN lastOp.announcedBefore
                                        ELSE getAnnouncedAction(actionHistory,
                                                                agentState.currentState),
                   rngAtPause |-> IF lastOp.op = "pause" THEN lastOp.rngBefore ELSE rng]
    /\ UNCHANGED episodeLog

\* Pause button
Pause ==
    /\ Idle
    /\ gameStatus.isRunning /\ ~gameStatus.isPaused
    /\ budget.controls < MaxControls
    /\ \E post \in {afterRender(Cur, pauseGame(Cur, Cur))} : Commit(post)
    /\ Spend("controls")
    /\ lastOp' = [op |-> "pause",
                   announcedBefore |-> getAnnouncedAction(actionHistory,
                                                          agentState.currentState),
                   pendingBefore |-> pendingAction,
                   rngBefore |-> rng]
    /\ UNCHANGED episodeLog

\* Reset button
Reset ==
    /\ Idle
    /\ budget.controls < MaxControls
    /\ \E post \in {afterRender(Cur, handleReset(Cur, Cur))} : Commit(post)
    /\ Spend("controls")
    /\ lastOp' = [op |-> "reset", qBefore |-> qtable, historyBefore |-> interventionHistory,
                   gameStatsBefore |-> gameStats,
                   qAfterResetGame |-> resetGame(Cur, Cur).qtable]
    /\ UNCHANGED episodeLog

\* rule selector
SetRule ==
    \E r \in RuleNames :
        /\ Idle
        /\ r # interventionRule
        /\ budget.controls < MaxControls
        /\ \E post \in {afterRender(Cur, setInterventionRule(Cur, Cur, r))} : Commit(post)
        /\ Spend("controls")
        /\ lastOp' = [op |-> "setRule"]
        /\ UNCHANGED episodeLog

\* the episode history: an episode is logged when gameStats.episode counts it
LogEpisode(post) ==
    IF post.gameStats.episode # gameStats.episode
    THEN Append(episodeLog, cellType(mapDesc, post.agentState.currentState))
    ELSE episodeLog

\* what a step leaves in lastOp
StepObservation(opName, post) ==
    [op |-> opName,
     executed |-> /\ pendingAction.set
                  /\ pendingAction.state = agentState.currentState
                  /\ ~agentState.isDone,
     state |-> agentState.currentState,
     pendingBefore |-> pendingAction,
     announcedBefore |-> getAnnouncedAction(actionHistory, agentState.currentState),
     qBefore |-> qtable,
     rngBefore |-> rng,
     agentBefore |-> agentState,
     statusBefore |-> gameStatus,
     draggingBefore |-> isDragging,
     announcementsBefore |-> actionHistory,
     episodeStatsBefore |-> episodeStats,
     gameStatsBefore |-> gameStats,
     successBefore |-> successCount,
     newState |-> post.agentState.currentState,
     reward |-> post.agentState.lastReward]

DoStep(opName) ==
    \E post \in {afterRender(Cur, executePendingAction(Cur, Cur))} :
        \E obs \in {StepObservation(opName, post)} :
            /\ obs.executed => budget.steps < MaxSteps
            /\ Commit(post)
            /\ budget' = IF obs.executed THEN [budget EXCEPT !.steps = @ + 1] ELSE budget
            /\ episodeLog' = LogEpisode(post)
            /\ lastOp' = obs

\* Step button (enabled unless running and not paused)
Step ==
    /\ Idle
    /\ ~(gameStatus.isRunning /\ ~gameStatus.isPaused)
    /\ DoStep("step")

\* a gameLoop that executes the pending action whatever the status
TickUnguarded == DoStep("tick")

\* gameLoop: one animation frame whose step delay has elapsed
Tick ==
    /\ gameStatus.isRunning
    /\ ~gameStatus.isPaused
    /\ ~gameStatus.isIntervening
    /\ ~isDragging
    /\ DoStep("tick")

\* mouse down on the agent's cell
MouseDown ==
    /\ Idle
    /\ budget.controls < MaxControls
    /\ \E post \in {afterRender(Cur, handleMouseDown(Cur, Cur, agentState.currentState))} : Commit(post)
    /\ Spend("controls")
    /\ lastOp' = [op |-> "mouseDown", pausedBefore |-> gameStatus.isPaused,
                   pendingBefore |-> pendingAction]
    /\ UNCHANGED episodeLog

\* mouse up over cell toState while dragging
MouseUp ==
    \E toState \in 0 .. lp.stateSize - 1 :
        \E fromState \in {dragStartState}, reward \in {calculateReward(mapDesc, toState)},
           post \in {afterRender(Cur, handleGlobalMouseUp(Cur, Cur, toState))} :
        \E applied \in {applyIntervention(Cur, Cur, fromState, toState, reward)} :
            /\ ~Idle
            /\ toState # fromState => budget.interventions < MaxInterventions
            /\ Commit(post)
            /\ budget' = IF toState # fromState
                         THEN [budget EXCEPT !.interventions = @ + 1] ELSE budget
            /\ episodeLog' = LogEpisode(post)
            /\ lastOp' = [op |-> "mouseUp",
                          dropped |-> toState # fromState,
                          afterMouseDown |-> lastOp.op = "mouseDown",
                          pausedAtDown |-> lastOp.op = "mouseDown" /\ lastOp.pausedBefore,
                          pendingAtDown |-> IF lastOp.op = "mouseDown"
                                            THEN lastOp.pendingBefore ELSE pendingAction,
                          fromState |-> fromState,
                          toState |-> toState,
                          reward |-> reward,
                          rule |-> interventionRule,
                          announcedBefore |-> getAnnouncedAction(actionHistory, fromState),
                          pendingBefore |-> pendingAction,
                          qBefore |-> qtable,
                          rngBefore |-> rng,
                          historyBefore |-> interventionHistory,
                          agentBefore |-> agentState,
                          episodeStatsBefore |-> episodeStats,
                          flagBefore |-> gameStatus.isIntervening,
                          statusBefore |-> gameStatus,
                          gameStatsBefore |-> gameStats,
                          successBefore |-> successCount,
                          qApplied |-> applied.qtable,
                          rngApplied |-> applied.rng,
                          historyApplied |-> applied.interventionHistory]

\* nothing but timer callbacks has run since the Reset button was pressed
AfterReset == lastOp.op = "reset" \/ (lastOp.op = "timer" /\ lastOp.afterReset)

\* what the callback of timer i leaves in lastOp; odd tells callbacks that run
\* in a row apart (an odd or even number of them since the last other event)
TimerObservation(i) ==
    [op |-> "timer", kind |-> timers[i].kind,
     odd |-> ~(lastOp.op = "timer" /\ lastOp.odd),
     afterReset |-> AfterReset,
     rngAtReset |-> IF lastOp.op = "timer" /\ lastOp.afterReset
                    THEN lastOp.rngAtReset ELSE rng]

\* a setTimeout callback runs
FireTimer ==
    \E i \in 1 .. Len(timers) :
        /\ canFire(timers, i)
        /\ \E post \in {afterRender(Cur, runTimer([Cur EXCEPT !.timers = RemoveAt(timers, i)],
                                                  timers[i]))} : Commit(post)
        /\ UNCHANGED <<budget, episodeLog>>
        /\ lastOp' = TimerObservation(i)

Next ==
    \/ Start
    \/ Pause
    \/ Reset
    \/ SetRule
    \/ Step
    \/ Tick
    \/ MouseDown
    \/ MouseUp
    \/ FireTimer

Spec == Init /\ [][Next]_vars

\* the steps of FireTimer, told by the observation they leave: a timer is pending
\* and one that can fire has run
TimerRuns ==
    \E i \in 1 .. Len(timers) : canFire(timers, i) /\ lastOp' = TimerObservation(i)

\* the page with the browser's guarantee that a registered setTimeout callback runs
SpecLive == Spec /\ WF_lastOp(TimerRuns)

(***************************************************************************)
(* The rule harness: one call of updateQValue, or of a rule followed by    *)
(* the commit updateQTable, on a table and arguments drawn from bounded    *)
(* sets                                                                    *)
(***************************************************************************)
InitRules ==
    \E m \in HarnessMaps, rates \in HarnessRates, k \in 0 .. MaxSeed :
        InitFor(m, [DefaultParams(m) EXCEPT !.learningRate = rates[1], !.gamma = rates[2]],
                SeedTable(k, stateSizeOf(m)))

\* useQLearning updateQTable: wholesale replace
updateQTable(q, newQTable) == newQTable

UnchangedController ==
    UNCHANGED <<mapDesc, lp, rng, actionHistory, agentState, gameStatus, gameStats,
                isDragging, episodeStats, successCount, pendingAction, timers,
                interventionRule, interventionHistory, isIntervening, dragStartState,
                budget, episodeLog>>

CallUpdateQValue ==
    \E st \in 0 .. lp.stateSize - 1, a \in Actions, r \in Rewards,
       st2 \in 0 .. lp.stateSize - 1 :
        /\ lastOp.op = "init"
        /\ qtable' = updateQValue(qtable, lp, st, a, R(r), st2)
        /\ lastOp' = [op |-> "updateQValue", state |-> st, action |-> a, reward |-> R(r),
                      newState |-> st2, qBefore |-> qtable]
        /\ UnchangedController

CallRule ==
    \E rule \in RuleNames, st \in 0 .. lp.stateSize - 1, a \in Actions, r \in Rewards,
       st2 \in 0 .. lp.stateSize - 1 :
        LET p == [state |-> st, reward |-> R(r), newState |-> st2, action |-> a,
                  learningRate |-> lp.learningRate, gamma |-> lp.gamma,
                  nrow |-> lp.nrow, ncol |-> lp.ncol]
            result == applyInterventionRule(rule, qtable, p)
        IN  /\ lastOp.op = "init"
            /\ qtable' = updateQTable(qtable, result)
            /\ lastOp' = [op |-> "rule", rule |-> rule, params |-> p,
                          qBefore |-> qtable, result |-> result]
            /\ UnchangedController

NextRules == CallUpdateQValue \/ CallRule

SpecRules == InitRules /\ [][NextRules]_vars

(***************************************************************************)
(* The policy harness: a client of useQLearning calling chooseAction,      *)
(* getAnnouncedAction, updateQValue and setRandomSeed.  lastOp.run logs    *)
(* the calls made and the values returned since the generator was seeded.  *)
(***************************************************************************)
MaxCalls == 3            \* chooseAction / updateQValue / setRandomSeed calls per behaviour

PolicyMaps == { << <<"S">> >>,
                << <<"S", "F", "G">> >>,
                << <<"S", "F">>, <<"H", "G">> >> }

\* seeds handed to setRandomSeed; the first draw after seed 20 is below epsilon
Seeds == {InitialSeed, 20}

\* useQLearning setRandomSeed: rngRef.current = new SimpleRNG(seed)
setRandomSeed(seed) == seed

InitPolicy ==
    \E m \in PolicyMaps, k \in {0, MaxSeed} :
        InitFor(m, DefaultParams(m), SeedTable(k, stateSizeOf(m)))

\* the run in progress: the one begun at construction until setRandomSeed begins another
RunOf ==
    IF lastOp.op = "init"
    THEN [seed |-> rng, q0 |-> qtable, announcedAtStart |-> actionHistory,
          calls |-> << >>, outs |-> << >>]
    ELSE lastOp.run

UnchangedEngine ==
    UNCHANGED <<mapDesc, lp, agentState, gameStatus, gameStats, isDragging, episodeStats,
                successCount, pendingAction, timers, interventionRule,
                interventionHistory, isIntervening, dragStartState, episodeLog>>

CallChooseAction ==
    \E st \in 0 .. lp.stateSize - 1 :
        \E ch \in {chooseAction(qtable, lp, rng, actionHistory, st)} :
            /\ budget.steps < MaxCalls
            /\ rng' = ch.rng
            /\ actionHistory' = ch.actionHistory
            /\ budget' = [budget EXCEPT !.steps = @ + 1]
            /\ lastOp' = [op |-> "chooseAction", state |-> st, action |-> ch.action,
                          rngBefore |-> rng, historyBefore |-> actionHistory,
                          run |-> [RunOf EXCEPT
                                     !.calls = Append(@, [kind |-> "chooseAction", state |-> st]),
                                     !.outs = Append(@, [action |-> ch.action, rng |-> ch.rng,
                                                         announced |-> ch.actionHistory[st]])]]
            /\ UNCHANGED qtable
            /\ UnchangedEngine

CallGetAnnouncedAction ==
    \E st \in 0 .. lp.stateSize - 1 :
        /\ lastOp.op # "getAnnouncedAction"
        /\ lastOp' = [op |-> "getAnnouncedAction", state |-> st,
                      result |-> getAnnouncedAction(actionHistory, st),
                      rngBefore |-> rng, historyBefore |-> actionHistory, qBefore |-> qtable,
                      run |-> RunOf]
        /\ UNCHANGED <<qtable, rng, actionHistory, budget>>
        /\ UnchangedEngine

\* the Bellman update a client applies for an announced action, as the engine does
CallPolicyUpdate ==
    \E st \in 0 .. lp.stateSize - 1 :
        /\ budget.steps < MaxCalls
        /\ actionHistory[st].set
        /\ \E a \in {actionHistory[st].action} :
           \E st2 \in {moveResult(mapDesc, st, a)} :
           \E r \in {R(calculateReward(mapDesc, st2))} :
              /\ qtable' = updateQValue(qtable, lp, st, a, r, st2)
              /\ lastOp' = [op |-> "updateQValue", state |-> st, action |-> a, reward |-> r,
                            newState |-> st2, qBefore |-> qtable,
                            run |-> [RunOf EXCEPT
                                       !.calls = Append(@, [kind |-> "updateQValue", state |-> st,
                                                            action |-> a, reward |-> r,
                                                            newState |-> st2])]]
        /\ budget' = [budget EXCEPT !.steps = @ + 1]
        /\ UNCHANGED <<rng, actionHistory>>
        /\ UnchangedEngine

CallSetRandomSeed ==
    \E seed \in Seeds :
        /\ budget.steps < MaxCalls
        /\ rng' = setRandomSeed(seed)
        /\ budget' = [budget EXCEPT !.steps = @ + 1]
        /\ lastOp' = [op |-> "setRandomSeed",
                      run |-> [seed |-> seed, q0 |-> qtable, announcedAtStart |-> actionHistory,
                               calls |-> << >>, outs |-> << >>]]
        /\ UNCHANGED <<qtable, actionHistory>>
        /\ UnchangedEngine

NextPolicy ==
    \/ CallChooseAction
    \/ CallGetAnnouncedAction
    \/ CallPolicyUpdate
    \/ CallSetRandomSeed

SpecPolicy == InitPolicy /\ [][NextPolicy]_vars

(***************************************************************************)
(* The drop harness: the page's handleAgentDrop called with arbitrary      *)
(* state indices (the board itself clamps the drop cell to the grid)       *)
(***************************************************************************)
\* config.mapDesc[row][col] throws a TypeError when mapDesc[row] is undefined
lookupRaises(m, state) ==
    (state \div ncolOf(m)) < 0 \/ (state \div ncolOf(m)) >= nrowOf(m)

CallHandleAgentDrop ==
    \E fromState \in -1 .. lp.stateSize, toState \in -1 .. lp.stateSize :
        /\ budget.interventions < MaxInterventions
        /\ \E raised \in {lookupRaises(mapDesc, toState)} :
           \E post \in {IF raised THEN Cur
                        ELSE afterRender(Cur, handleAgentDrop(Cur, Cur, fromState, toState))} :
              /\ Commit(post)
              /\ episodeLog' = LogEpisode(post)
              /\ lastOp' = [op |-> "handleAgentDrop", fromState |-> fromState,
                            toState |-> toState, raised |-> raised,
                            qBefore |-> qtable, historyBefore |-> interventionHistory,
                            agentBefore |-> agentState,
                            episodeStatsBefore |-> episodeStats]
        /\ budget' = [budget EXCEPT !.interventions = @ + 1]

NextDrop ==
    \/ Start
    \/ Tick
    \/ FireTimer
    \/ CallHandleAgentDrop

SpecDrop == Init /\ [][NextDrop]_vars

(***************************************************************************)
(* The scenario harness: the engine on the 1x4 grid, driven by start,      *)
(* pause and stepGame calls, with the exploration rate 0 or the default    *)
(***************************************************************************)
MaxScenarioSteps == 3    \* executed steps per behaviour of the scenario harness

ScenarioMap == << <<"S", "F", "F", "G">> >>

InitScenario ==
    \E eps \in {<<0, 1>>, <<1, 10>>} :
        InitFor(ScenarioMap, [DefaultParams(ScenarioMap) EXCEPT !.epsilon = eps],
                ZeroTable(stateSizeOf(ScenarioMap)))

\* a stepGame call
CallStepGame ==
    \E post \in {afterRender(Cur, stepGame(Cur, Cur))} :
        \E obs \in {StepObservation("step", post)} :
            /\ obs.executed => budget.steps < MaxScenarioSteps
            /\ Commit(post)
            /\ budget' = IF obs.executed THEN [budget EXCEPT !.steps = @ + 1] ELSE budget
            /\ episodeLog' = LogEpisode(post)
            /\ lastOp' = obs

NextScenario ==
    \/ Start
    \/ Pause
    \/ CallStepGame
    \/ FireTimer

SpecScenario == InitScenario /\ [][NextScenario]_vars

(***************************************************************************)
(* The table harness: a client of useQLearning calling chooseAction,       *)
(* updateQValue, a rule with its commit updateQTable, resetQTable and      *)
(* updateLearningParams, each from an event handler of its own, and        *)
(* updateLearningParams followed by resetQTable from one handler           *)
(***************************************************************************)
TableMaps == { << <<"S", "G">> >>,
               << <<"S", "F", "G">> >> }

InitTable ==
    \E m \in TableMaps, k \in {0, MaxSeed} :
        InitFor(m, DefaultParams(m), SeedTable(k, stateSizeOf(m)))

\* the Partial<LearningParams> handed to updateLearningParams: one more state, the
\* number of states of the map, or another exploration rate
NewParams ==
    { [stateSize |-> n] : n \in {lp.stateSize + 1, stateSizeOf(mapDesc)} }

OtherParams == { [epsilon |-> eps] : eps \in {<<0, 1>>, <<1, 10>>} }

MapStates == 0 .. stateSizeOf(mapDesc) - 1

UnchangedBoard ==
    UNCHANGED <<mapDesc, lp, agentState, gameStatus, gameStats, isDragging, episodeStats,
                successCount, pendingAction, timers, interventionRule,
                interventionHistory, isIntervening, dragStartState, episodeLog>>

TableObservation(op) ==
    [op |-> op, lpBefore |-> lp, qBefore |-> qtable, announcedBefore |-> actionHistory]

TableChooseAction ==
    \E st \in MapStates :
        \E ch \in {chooseAction(qtable, lp, rng, actionHistory, st)} :
            /\ budget.steps < MaxCalls
            /\ rng' = ch.rng
            /\ actionHistory' = ch.actionHistory
            /\ budget' = [budget EXCEPT !.steps = @ + 1]
            /\ lastOp' = TableObservation("chooseAction")
            /\ UNCHANGED qtable
            /\ UnchangedBoard

\* the Bellman update of a move on the map
TableUpdateQValue ==
    \E st \in MapStates, a \in Actions :
        \E st2 \in {moveResult(mapDesc, st, a)} :
            /\ budget.steps < MaxCalls
            /\ qtable' = updateQValue(qtable, lp, st, a, R(calculateReward(mapDesc, st2)), st2)
            /\ budget' = [budget EXCEPT !.steps = @ + 1]
            /\ lastOp' = TableObservation("updateQValue")
            /\ UNCHANGED <<rng, actionHistory>>
            /\ UnchangedBoard

\* a committed intervention on the action announced for its state: the rule's table
\* handed to updateQTable
TableRule ==
    \E rule \in RuleNames, st \in MapStates, st2 \in MapStates :
        LET p == [state |-> st, reward |-> R(calculateReward(mapDesc, st2)), newState |-> st2,
                  action |-> getAnnouncedAction(actionHistory, st).action,
                  learningRate |-> lp.learningRate, gamma |-> lp.gamma,
                  nrow |-> lp.nrow, ncol |-> lp.ncol]
        IN  /\ budget.steps < MaxCalls
            /\ getAnnouncedAction(actionHistory, st).set
            /\ qtable' = updateQTable(qtable, applyInterventionRule(rule, qtable, p))
            /\ budget' = [budget EXCEPT !.steps = @ + 1]
            /\ lastOp' = TableObservation("rule")
            /\ UNCHANGED <<rng, actionHistory>>
            /\ UnchangedBoard

CallResetQTable ==
    /\ budget.steps < MaxCalls
    /\ \E post \in {resetQTable(Cur, Cur)} : Commit(post)
    /\ budget' = [budget EXCEPT !.steps = @ + 1]
    /\ lastOp' = TableObservation("resetQTable")
    /\ UNCHANGED episodeLog

CallUpdateLearningParams ==
    \E newParams \in NewParams \cup OtherParams :
        /\ budget.steps < MaxCalls
        /\ \E post \in {updateLearningParams(Cur, Cur, newParams)} : Commit(post)
        /\ budget' = [budget EXCEPT !.steps = @ + 1]
        /\ lastOp' = TableObservation("updateLearningParams")
        /\ UNCHANGED episodeLog

\* one handler calling updateLearningParams(newParams) and then resetQTable(), both
\* callbacks of the same render.  The updater of setLearningParams runs inside the
\* call when no update is pending on the component, so that its setQTable is queued
\* before resetQTable's, and during the next render otherwise, after resetQTable's
\* table was applied.
CallResizeAndReset ==
    \E newParams \in NewParams, eager \in BOOLEAN :
        /\ budget.steps < MaxCalls
        /\ \E post \in {IF eager
                         THEN resetQTable(Cur, updateLearningParams(Cur, Cur, newParams))
                         ELSE updateLearningParams(Cur, resetQTable(Cur, Cur), newParams)} :
              Commit(post)
        /\ budget' = [budget EXCEPT !.steps = @ + 1]
        /\ lastOp' = TableObservation("resizeAndReset")
        /\ UNCHANGED episodeLog

NextTable ==
    \/ TableChooseAction
    \/ TableUpdateQValue
    \/ TableRule
    \/ CallResetQTable
    \/ CallUpdateLearningParams
    \/ CallResizeAndReset

SpecTable == InitTable /\ [][NextTable]_vars

(***************************************************************************)
(* The analysis harness: a client of useQLearning calling chooseAction and *)
(* setRandomSeed between calls of the analysis tools getBestActionForState,*)
(* getPolicy and getQTableStats, with the exploration rate 0, 1/10 or 1    *)
(***************************************************************************)
Epsilons == {<<0, 1>>, <<1, 10>>, <<1, 1>>}

InitAnalysis ==
    \E m \in PolicyMaps, k \in {0, MaxSeed}, eps \in Epsilons :
        InitFor(m, [DefaultParams(m) EXCEPT !.epsilon = eps], SeedTable(k, stateSizeOf(m)))

AnalysisObservation(op, result) ==
    [op |-> op, result |-> result, rngBefore |-> rng, historyBefore |-> actionHistory,
     qBefore |-> qtable, run |-> RunOf]

CallGetBestActionForState ==
    \E st \in 0 .. lp.stateSize - 1 :
        \E best \in {getBestActionForState(qtable, lp, rng, st)} :
            /\ budget.steps < MaxCalls
            /\ rng' = best.rng
            /\ budget' = [budget EXCEPT !.steps = @ + 1]
            /\ lastOp' = AnalysisObservation("getBestActionForState",
                                             [action |-> best.action, qValue |-> best.qValue])
            /\ UNCHANGED <<qtable, actionHistory>>
            /\ UnchangedEngine

CallGetPolicy ==
    \E pol \in {getPolicy(qtable, lp, rng)} :
        /\ budget.steps < MaxCalls
        /\ rng' = pol.rng
        /\ budget' = [budget EXCEPT !.steps = @ + 1]
        /\ lastOp' = AnalysisObservation("getPolicy", pol.policy)
        /\ UNCHANGED <<qtable, actionHistory>>
        /\ UnchangedEngine

CallGetQTableStats ==
    /\ lastOp.op # "getQTableStats"
    /\ lastOp' = AnalysisObservation("getQTableStats", getQTableStats(qtable))
    /\ UNCHANGED <<qtable, rng, actionHistory, budget>>
    /\ UnchangedEngine

NextAnalysis ==
    \/ CallChooseAction
    \/ CallSetRandomSeed
    \/ CallGetBestActionForState
    \/ CallGetPolicy
    \/ CallGetQTableStats

SpecAnalysis == InitAnalysis /\ [][NextAnalysis]_vars

(***************************************************************************)
(* Properties                                                              *)
(***************************************************************************)
\* the cells in which two tables differ
CellsChanged(q1, q2) == {cell \in (DOMAIN q1) \X Actions : q1[cell[1]][cell[2]] # q2[cell[1]][cell[2]]}

\* the greatest of the four entries of a row
GreatestOf(row) == CHOOSE v \in {row[a] : a \in Actions} : \A a \in Actions : ~RLess(v, row[a])

\* old + alpha * (term + gamma * M - old)
MovedToward(old, alpha, term, gamma, M) ==
    RAdd(old, RMul(alpha, RSub(RAdd(term, RMul(gamma, M)), old)))

StepExecuted == lastOp.op \in {"step", "tick"} /\ lastOp.executed

InterventionApplied ==
    /\ lastOp.op = "mouseUp"
    /\ lastOp.dropped
    /\ lastOp.historyApplied # lastOp.historyBefore

\* C1: a successful intervention for fromState passes the action announced for
\* fromState to the rule, writes it into the appended InterventionRecord, and the
\* lookup + rule + commit + record leave the RandomSource state as it was.
C1_InterventionUsesAnnounced ==
    InterventionApplied =>
        /\ lastOp.announcedBefore.set
        /\ lastOp.announcedBefore.state = lastOp.fromState
        /\ Len(lastOp.historyApplied) = Len(lastOp.historyBefore) + 1
        /\ lastOp.historyApplied[Len(lastOp.historyApplied)].action = lastOp.announcedBefore.action
        /\ lastOp.historyApplied[Len(lastOp.historyApplied)].fromState = lastOp.fromState
        /\ lastOp.qApplied =
              applyInterventionRule(lastOp.rule, lastOp.qBefore,
                  [state |-> lastOp.fromState, reward |-> R(lastOp.reward),
                   newState |-> lastOp.toState, action |-> lastOp.announcedBefore.action,
                   learningRate |-> lp.learningRate, gamma |-> lp.gamma,
                   nrow |-> lp.nrow, ncol |-> lp.ncol])
        /\ lastOp.rngApplied = lastOp.rngBefore

\* an intervention under a rule that uses the action was applied and changed the table
C1_Witness ==
    /\ InterventionApplied
    /\ lastOp.rule \in {"reset", "impede"}
    /\ lastOp.qApplied # lastOp.qBefore

\* C2: a step executed from state s moves by, and updates the Q-value of, the action
\* pending for s, which is the action announced for s at that moment.
C2_StepUsesPendingAnnounced ==
    StepExecuted =>
        /\ lastOp.pendingBefore.set
        /\ lastOp.pendingBefore.state = lastOp.state
        /\ lastOp.announcedBefore.set
        /\ lastOp.announcedBefore.state = lastOp.state
        /\ lastOp.announcedBefore.action = lastOp.pendingBefore.action
        /\ lastOp.newState = moveResult(mapDesc, lastOp.state, lastOp.pendingBefore.action)
        /\ CellsChanged(lastOp.qBefore, qtable) \subseteq
              {<<lastOp.state, lastOp.pendingBefore.action>>}

\* a step moved the agent and changed the Q-value of the executed action
C2_Witness ==
    /\ StepExecuted
    /\ lastOp.newState # lastOp.state
    /\ CellsChanged(lastOp.qBefore, qtable) = {<<lastOp.state, lastOp.pendingBefore.action>>}

\* C3: an executed step from s with action a landing on s' with reward r leaves
\* Q[s][a] = old + alpha * (r + gamma * max Q_old[s'] - old): one Bellman update.
C3_StepUpdatesOnce ==
    StepExecuted =>
        qtable[lastOp.state][lastOp.pendingBefore.action] =
            MovedToward(lastOp.qBefore[lastOp.state][lastOp.pendingBefore.action],
                        lp.learningRate, R(lastOp.reward), lp.gamma,
                        GreatestOf(lastOp.qBefore[lastOp.newState]))

\* C4: after updateQValue(s,a,r,s') the cell Q[s][a] is old + alpha * (r + gamma * M - old)
\* with M the greatest of all four entries of row s' of the table before the update.
C4_BellmanCell ==
    lastOp.op = "updateQValue" =>
        qtable[lastOp.state][lastOp.action] =
            MovedToward(lastOp.qBefore[lastOp.state][lastOp.action],
                        lp.learningRate, lastOp.reward, lp.gamma,
                        GreatestOf(lastOp.qBefore[lastOp.newState]))

\* the greatest entry of row s' belongs only to actions that leave the grid in s'
C4_Witness ==
    /\ lastOp.op = "updateQValue"
    /\ qtable # lastOp.qBefore
    /\ LET avail == getAvailableActions(lp, lastOp.newState)
       IN  \A i \in 1 .. Len(avail) :
              RLess(lastOp.qBefore[lastOp.newState][avail[i]],
                    GreatestOf(lastOp.qBefore[lastOp.newState]))

\* C5: updateQValue(s,a,r,s') changes no cell other than Q[s][a], also when s' = s.
C5_BellmanFrame ==
    lastOp.op = "updateQValue" =>
        CellsChanged(lastOp.qBefore, qtable) \subseteq {<<lastOp.state, lastOp.action>>}

\* an update with s' = s changed its cell
C5_Witness ==
    /\ lastOp.op = "updateQValue"
    /\ lastOp.newState = lastOp.state
    /\ CellsChanged(lastOp.qBefore, qtable) = {<<lastOp.state, lastOp.action>>}

\* C6: under rule interrupt the returned table equals the input in every entry, and
\* the committed Q-table is the Q-table before the intervention.
C6_InterruptIdentity ==
    (lastOp.op = "rule" /\ lastOp.rule = "interrupt") =>
        /\ CellsChanged(lastOp.qBefore, lastOp.result) = {}
        /\ qtable = lastOp.qBefore

\* interrupt was applied to a table with non-zero entries, with a non-zero reward
C6_Witness ==
    /\ lastOp.op = "rule"
    /\ lastOp.rule = "interrupt"
    /\ lastOp.qBefore # ZeroTable(lp.stateSize)
    /\ lastOp.params.reward # R(0)

\* C7: resetRule(Q, params) is the table updateQValue(state, action, reward, newState)
\* produces from Q with the same learning rate and discount.
C7_ResetIsBellman ==
    (lastOp.op = "rule" /\ lastOp.rule = "reset") =>
        lastOp.result = updateQValue(lastOp.qBefore, lp, lastOp.params.state,
                                     lastOp.params.action, lastOp.params.reward,
                                     lastOp.params.newState)

\* reset changed a cell and the row of newState has a non-zero greatest entry
C7_Witness ==
    /\ lastOp.op = "rule"
    /\ lastOp.rule = "reset"
    /\ lastOp.result # lastOp.qBefore
    /\ GreatestOf(lastOp.qBefore[lastOp.params.newState]) # R(0)

\* C8: impede sets Q[state][action] to old + alpha * (-1 + gamma * max Q[newState] - old)
\* and leaves the other cells; on the zero table with state 0, newState 1, action 2,
\* alpha 0.5, gamma 0.9 the result is -0.5 in Q[0][2] and 0 elsewhere.
C8_Impede ==
    (lastOp.op = "rule" /\ lastOp.rule = "impede") =>
        LET p == lastOp.params
        IN  /\ lastOp.result[p.state][p.action] =
                  MovedToward(lastOp.qBefore[p.state][p.action], p.learningRate, R(-1),
                              p.gamma, GreatestOf(lastOp.qBefore[p.newState]))
            /\ CellsChanged(lastOp.qBefore, lastOp.result) \subseteq {<<p.state, p.action>>}
            /\ ( /\ lastOp.qBefore = ZeroTable(lp.stateSize)
                 /\ p.state = 0 /\ p.newState = 1 /\ p.action = 2
                 /\ p.learningRate = Dec(5000) /\ p.gamma = Dec(9000) )
               => lastOp.result = [ZeroTable(lp.stateSize) EXCEPT ![0][2] = Dec(-5000)]

\* the scenario of the claim, with a reward other than -1
C8_Witness ==
    /\ lastOp.op = "rule"
    /\ lastOp.rule = "impede"
    /\ lastOp.qBefore = ZeroTable(lp.stateSize)
    /\ lastOp.params.state = 0 /\ lastOp.params.newState = 1 /\ lastOp.params.action = 2
    /\ lastOp.params.learningRate = Dec(5000) /\ lastOp.params.gamma = Dec(9000)
    /\ lastOp.params.reward = R(10)
    /\ lastOp.result[0][2] = Dec(-5000)

RowDiff(p) == (p.newState \div p.ncol) - (p.state \div p.ncol)
ColDiff(p) == (p.newState % p.ncol) - (p.state % p.ncol)

\* the directions the claim allows for a transition
SuggestedDirs(p) ==
    IF p.nrow = 1
    THEN (IF ColDiff(p) > 0 THEN {2} ELSE {0})
    ELSE IF Abs(ColDiff(p)) > Abs(RowDiff(p))
         THEN (IF ColDiff(p) > 0 THEN {2} ELSE {0})
         ELSE (IF RowDiff(p) > 0 THEN {1} ELSE IF RowDiff(p) < 0 THEN {3} ELSE {1, 3})

\* C9: suggestion updates exactly one cell Q[state][dir], dir being Right/Left by the
\* sign of colDiff when |colDiff| > |rowDiff| (or on a one-row grid) and Down/Up by
\* the sign of rowDiff otherwise.
C9_SuggestionDirection ==
    (lastOp.op = "rule" /\ lastOp.rule = "suggestion") =>
        LET p == lastOp.params
        IN  \E dir \in SuggestedDirs(p) :
                /\ CellsChanged(lastOp.qBefore, lastOp.result) \subseteq {<<p.state, dir>>}
                /\ lastOp.result[p.state][dir] =
                      MovedToward(lastOp.qBefore[p.state][dir], p.learningRate, R(1),
                                  p.gamma, GreatestOf(lastOp.qBefore[p.newState]))

\* a move with 0 < |rowDiff| < |colDiff| on a two-row grid updated a Right/Left cell
C9_Witness ==
    /\ lastOp.op = "rule"
    /\ lastOp.rule = "suggestion"
    /\ lastOp.params.nrow > 1
    /\ RowDiff(lastOp.params) # 0
    /\ Abs(ColDiff(lastOp.params)) > Abs(RowDiff(lastOp.params))
    /\ \E dir \in {0, 2} :
          CellsChanged(lastOp.qBefore, lastOp.result) = {<<lastOp.params.state, dir>>}

\* C10: the tables suggestion and impede return do not depend on the reward argument,
\* and the table suggestion returns does not depend on the announced action.
C10_RewardIndependence ==
    (lastOp.op = "rule" /\ lastOp.rule \in {"suggestion", "impede"}) =>
        /\ \A r \in Rewards :
              applyInterventionRule(lastOp.rule, lastOp.qBefore,
                                    [lastOp.params EXCEPT !.reward = R(r)]) = lastOp.result
        /\ lastOp.rule = "suggestion" =>
              \A a \in Actions :
                  applyInterventionRule(lastOp.rule, lastOp.qBefore,
                                        [lastOp.params EXCEPT !.action = a]) = lastOp.result

\* suggestion changed the table on a call whose reward is not 1
C10_Witness ==
    /\ lastOp.op = "rule"
    /\ lastOp.rule = "suggestion"
    /\ lastOp.params.reward = R(-10)
    /\ lastOp.result # lastOp.qBefore

\* the fields of AgentState the claims speak of (nextAction is the announcement shown)
AgentCore(a) == <<a.currentState, a.totalReward, a.steps, a.lastReward, a.isDone>>

Dropped == lastOp.op = "mouseUp" /\ lastOp.dropped

\* C13: an intervention for a fromState without an announced action is a no-op: the
\* Q-table, the intervention history, the agent's position/rewards/isDone and the
\* episode accounting stay as they were, and applying it draws nothing from the RNG.
C13_NoAnnouncementNoOp ==
    (Dropped /\ ~lastOp.announcedBefore.set) =>
        /\ qtable = lastOp.qBefore
        /\ interventionHistory = lastOp.historyBefore
        /\ AgentCore(agentState) = AgentCore(lastOp.agentBefore)
        /\ episodeStats = lastOp.episodeStatsBefore
        /\ lastOp.rngApplied = lastOp.rngBefore

\* C14: an intervention requested while the engine's intervening flag is still set is
\* rejected as a whole: Q-table, intervention history, agent state and episode
\* accounting are unchanged.
C14_FlagRejectsWhole ==
    (Dropped /\ lastOp.flagBefore) =>
        /\ qtable = lastOp.qBefore
        /\ interventionHistory = lastOp.historyBefore
        /\ AgentCore(agentState) = AgentCore(lastOp.agentBefore)
        /\ episodeStats = lastOp.episodeStatsBefore

\* the callbacks an intervention schedules: the next announcement after 100 ms, the
\* episode reset after 1500 ms and the restart 500 ms later
InterventionOutstanding ==
    \E i \in 1 .. Len(timers) :
        \/ timers[i].kind \in {"interventionReset", "autoRestart"}
        \/ timers[i].kind = "select" /\ timers[i].delay = 100

\* C15: the intervening flag is set once an intervention has changed the Q-table, and
\* it is not clear while bookkeeping of an intervention (its scheduled announcement,
\* episode reset or restart) is still outstanding.
C15_FlagCoversBookkeeping ==
    /\ InterventionApplied => gameStatus.isIntervening
    /\ InterventionOutstanding => gameStatus.isIntervening

\* C16: an intervention whose fromState is not the agent's current state at the time
\* of the drop leaves the Q-table, the intervention history and the agent's state
\* unchanged.
C16_StaleFromStateRejected ==
    (Dropped /\ lastOp.fromState # lastOp.agentBefore.currentState) =>
        /\ qtable = lastOp.qBefore
        /\ interventionHistory = lastOp.historyBefore
        /\ AgentCore(agentState) = AgentCore(lastOp.agentBefore)

\* C18: a successful intervention that moves the agent to toState accounts for it as a
\* step landing on toState: agent and episode steps + 1, total and episode reward
\* + reward(toState) for every cell kind, lastReward and isDone as for toState.
C18_InterventionAccountedAsStep ==
    (InterventionApplied /\ ~lastOp.flagBefore) =>
        /\ agentState.currentState = lastOp.toState
        /\ agentState.steps = lastOp.agentBefore.steps + 1
        /\ episodeStats.episodeSteps = lastOp.episodeStatsBefore.episodeSteps + 1
        /\ agentState.totalReward = lastOp.agentBefore.totalReward + lastOp.reward
        /\ episodeStats.episodeReward = lastOp.episodeStatsBefore.episodeReward + lastOp.reward
        /\ agentState.lastReward = lastOp.reward
        /\ agentState.isDone = (mapDesc[(lastOp.toState \div Len(mapDesc[1])) + 1]
                                       [(lastOp.toState % Len(mapDesc[1])) + 1] \in {"H", "G"})

\* the number of logged episodes that ended on Goal
GoalEpisodes == Cardinality({i \in 1 .. Len(episodeLog) : episodeLog[i] = "G"})

\* C19: whenever the episode count N is at least 1, the reported success rate is
\* (number of counted episodes that ended on Goal) / N.
C19_SuccessRateIsBatch ==
    gameStats.episode >= 1 =>
        /\ Len(episodeLog) = gameStats.episode
        /\ gameStats.successRate[1] * gameStats.episode = GoalEpisodes * gameStats.successRate[2]

\* C20: reset leads to Stopped with AgentState at the start state with zero rewards and
\* steps and isDone false, the episode statistics cleared to zero and the intervention
\* history empty; resetting the game does not by itself reset the Q-table.
C20_ResetClears ==
    lastOp.op = "reset" =>
        /\ ~gameStatus.isRunning /\ ~gameStatus.isPaused /\ ~gameStatus.isIntervening
        /\ AgentCore(agentState) = <<getStartState(mapDesc), 0, 0, 0, FALSE>>
        /\ gameStats.episode = 0
        /\ gameStats.totalReward = 0
        /\ gameStats.steps = 0
        /\ gameStats.interventions = 0
        /\ gameStats.successRate[1] = 0
        /\ interventionHistory = << >>
        /\ lastOp.qAfterResetGame = lastOp.qBefore

\* C11: right after chooseAction(s) returns a, getAnnouncedAction(s) is non-null with
\* action a, also for a state without available actions; getAnnouncedAction draws
\* nothing from the RNG and changes nothing.
C11_ChooseAnnounces ==
    /\ lastOp.op = "chooseAction" =>
          /\ getAnnouncedAction(actionHistory, lastOp.state).set
          /\ getAnnouncedAction(actionHistory, lastOp.state).action = lastOp.action
    /\ lastOp.op = "getAnnouncedAction" =>
          /\ rng = lastOp.rngBefore
          /\ actionHistory = lastOp.historyBefore
          /\ qtable = lastOp.qBefore

\* a second run: the logged calls made again on a hook freshly seeded with the run's
\* seed, holding the run's initial Q-table and no announcements
RECURSIVE ReplayFrom(_, _, _, _, _)
ReplayFrom(calls, i, q, seed, history) ==
    IF i > Len(calls) THEN << >>
    ELSE IF calls[i].kind = "chooseAction"
    THEN <<[action    |-> chooseAction(q, lp, seed, history, calls[i].state).action,
            rng       |-> chooseAction(q, lp, seed, history, calls[i].state).rng,
            announced |-> chooseAction(q, lp, seed, history, calls[i].state)
                              .actionHistory[calls[i].state]]>>
         \o ReplayFrom(calls, i + 1, q,
                       chooseAction(q, lp, seed, history, calls[i].state).rng,
                       chooseAction(q, lp, seed, history, calls[i].state).actionHistory)
    ELSE ReplayFrom(calls, i + 1,
                    updateQValue(q, lp, calls[i].state, calls[i].action, calls[i].reward,
                                 calls[i].newState),
                    seed, history)

Replay(run) ==
    ReplayFrom(run.calls, 1, run.q0, setRandomSeed(run.seed),
               [st \in DOMAIN run.announcedAtStart |-> NoInfo])

\* C12: a second run from the same seed, Q-table and parameters making the same
\* chooseAction calls with the same Q-table updates between them returns the same
\* actions, announcement kinds and random draws.
C12_Deterministic ==
    lastOp.op # "init" => Replay(lastOp.run) = lastOp.run.outs

\* a run begun by setRandomSeed with announcements already present, in which a state
\* announced before the run was asked again and the draw led to exploration
C12_Witness ==
    /\ lastOp.op = "chooseAction"
    /\ lastOp.run.announcedAtStart[lastOp.state].set
    /\ actionHistory[lastOp.state].type = "exploration"
    /\ lastOp.run.seed # InitialSeed

\* C17: an intervention whose fromState or toState is outside [0, stateCount) is
\* rejected without raising, and the Q-table, the intervention history, the agent's
\* state and the episode accounting are unchanged.
C17_OutOfRangeRejected ==
    ( /\ lastOp.op = "handleAgentDrop"
      /\ \/ lastOp.fromState \notin 0 .. lp.stateSize - 1
         \/ lastOp.toState \notin 0 .. lp.stateSize - 1 ) =>
        /\ ~lastOp.raised
        /\ qtable = lastOp.qBefore
        /\ interventionHistory = lastOp.historyBefore
        /\ AgentCore(agentState) = AgentCore(lastOp.agentBefore)
        /\ episodeStats = lastOp.episodeStatsBefore

\* C21: a reset issued while delayed work is pending invalidates that work: when the
\* timers fire after the reset, with no further calls, the controller stays Stopped,
\* the agent stays at the start state with fresh AgentState, no pending or announced
\* action is created and the RNG is not advanced.
C21_ResetInvalidatesTimers ==
    (lastOp.op = "timer" /\ lastOp.afterReset) =>
        /\ ~gameStatus.isRunning
        /\ ~gameStatus.isPaused
        /\ agentState = FreshAgentState(mapDesc, 0)
        /\ ~pendingAction.set
        /\ \A st \in DOMAIN actionHistory : ~getAnnouncedAction(actionHistory, st).set
        /\ rng = lastOp.rngAtReset

\* C22: every episode termination is eventually followed, absent a user reset, by the
\* episode resetting to the start state with fresh AgentState (isDone false), whether
\* the controller was Running, Paused or Stopped when the terminal cell was reached.
C22_TerminationLeadsToReset ==
    agentState.isDone ~>
        (agentState.currentState = getStartState(mapDesc) /\ ~agentState.isDone)

\* an intervention has just landed the agent on Hole or Goal with the controller Running
TerminalDropWhileRunning ==
    /\ lastOp.op = "mouseUp"
    /\ lastOp.dropped
    /\ ~lastOp.flagBefore
    /\ isTerminalState(mapDesc, lastOp.toState)
    /\ lastOp.statusBefore.isRunning

\* Running, not paused, at the start state with an announced action pending for it
ResumedAtStart ==
    /\ agentState.currentState = getStartState(mapDesc)
    /\ ~agentState.isDone
    /\ gameStatus.isRunning
    /\ ~gameStatus.isPaused
    /\ pendingAction.set
    /\ pendingAction.state = getStartState(mapDesc)
    /\ getAnnouncedAction(actionHistory, getStartState(mapDesc)).set
    /\ getAnnouncedAction(actionHistory, getStartState(mapDesc)).action = pendingAction.action

UserInput == lastOp.op \in {"start", "pause", "reset", "setRule", "step", "mouseDown"}

\* C23: when an intervention lands the agent on Hole or Goal while the controller is
\* Running, the episode is counted once (success iff Goal) and, with no further user
\* input, the agent is eventually back at the start state with isDone false and the
\* controller Running (not paused) with an announced action pending for the start state.
C23_TerminalDropResumes ==
    /\ [](TerminalDropWhileRunning =>
            /\ gameStats.episode = lastOp.gameStatsBefore.episode + 1
            /\ successCount = lastOp.successBefore
                               + (IF cellType(mapDesc, lastOp.toState) = "G" THEN 1 ELSE 0))
    /\ (TerminalDropWhileRunning ~> (ResumedAtStart \/ UserInput))

C23_Witness ==
    /\ lastOp.op = "timer"
    /\ lastOp.kind = "autoRestart"
    /\ ~lastOp.afterReset
    /\ ResumedAtStart
    /\ gameStats.episode > 0

\* C24: pause preserves the pending announced action, and across a pause followed by
\* start with no step or intervention in between the announced action for the agent's
\* current state is the same before and after and the RNG state has not advanced.
C24_PauseStartKeepsAnnouncement ==
    /\ lastOp.op = "pause" =>
          /\ pendingAction = lastOp.pendingBefore
          /\ getAnnouncedAction(actionHistory, agentState.currentState) = lastOp.announcedBefore
          /\ rng = lastOp.rngBefore
    /\ (lastOp.op = "start" /\ lastOp.afterPause /\ lastOp.announcedAtPause.set) =>
          /\ getAnnouncedAction(actionHistory, agentState.currentState) = lastOp.announcedAtPause
          /\ rng = lastOp.rngAtPause

\* C25: the tick source moves the agent or updates the Q-table only while the controller
\* is Running, not Paused, not Intervening and not mid-drag.
C25_TickOnlyWhileRunning ==
    ( /\ lastOp.op = "tick"
      /\ \/ AgentCore(agentState) # AgentCore(lastOp.agentBefore)
         \/ qtable # lastOp.qBefore ) =>
        /\ lastOp.statusBefore.isRunning
        /\ ~lastOp.statusBefore.isPaused
        /\ ~lastOp.statusBefore.isIntervening
        /\ ~lastOp.draggingBefore

C25_Witness ==
    /\ lastOp.op = "tick"
    /\ agentState.currentState # lastOp.agentBefore.currentState
    /\ qtable # lastOp.qBefore

\* C26: step is a no-op when the agent's state is terminal (isDone), when no action is
\* pending, or when the pending action was announced for another state than the agent's
\* current one: AgentState, the Q-table, the episode accounting, the announcements and
\* the RNG state are all unchanged.
C26_StepNoOp ==
    ( /\ lastOp.op \in {"step", "tick"}
      /\ \/ lastOp.agentBefore.isDone
         \/ ~lastOp.pendingBefore.set
         \/ lastOp.pendingBefore.state # lastOp.agentBefore.currentState ) =>
        /\ agentState = lastOp.agentBefore
        /\ qtable = lastOp.qBefore
        /\ episodeStats = lastOp.episodeStatsBefore
        /\ gameStats = lastOp.gameStatsBefore
        /\ successCount = lastOp.successBefore
        /\ actionHistory = lastOp.announcementsBefore
        /\ pendingAction = lastOp.pendingBefore
        /\ rng = lastOp.rngBefore

\* a step pressed while the pending action is one announced for another state
C26_Witness ==
    /\ lastOp.op = "step"
    /\ lastOp.pendingBefore.set
    /\ lastOp.pendingBefore.state # lastOp.agentBefore.currentState
    /\ ~lastOp.agentBefore.isDone

IsPrefix(a, b) == Len(a) <= Len(b) /\ SubSeq(b, 1, Len(a)) = a

\* the event just handled was an intervention that applyIntervention carried out
InterventionSucceeded(op) == op.op = "mouseUp" /\ op.dropped /\ op.announcedBefore.set

RecordOf(op) ==
    [fromState |-> op.fromState, toState |-> op.toState, rule |-> op.rule,
     reward |-> op.reward, action |-> op.announcedBefore.action,
     actionType |-> op.announcedBefore.type]

ScenarioRun ==
    /\ mapDesc = ScenarioMap
    /\ lp.epsilon = <<0, 1>>
    /\ budget.controls = 1

\* C28: on the 1x4 grid SFFG with reward schedule [-10,10,0], epsilon 0 and an all-zero
\* Q-table, the engine announces Right (2) from state 0 as an exploitation choice, and
\* stepping three times reaches state 3 (Goal) with the final step's reward equal to 10.
C28_ScenarioReachesGoal ==
    ScenarioRun =>
        /\ lastOp.op = "start" =>
              /\ pendingAction = [set |-> TRUE, state |-> 0, action |-> 2]
              /\ getAnnouncedAction(actionHistory, 0).set
              /\ getAnnouncedAction(actionHistory, 0).action = 2
              /\ getAnnouncedAction(actionHistory, 0).type = "exploitation"
        /\ (lastOp.op = "step" /\ lastOp.executed /\ budget.steps = 3) =>
              /\ agentState.currentState = 3
              /\ agentState.isDone
              /\ agentState.lastReward = 10
              /\ lastOp.reward = 10

C28_Witness ==
    /\ ScenarioRun
    /\ lastOp.op = "step"
    /\ lastOp.executed
    /\ budget.steps = 3
    /\ lastOp.state = 2
    /\ agentState.currentState = 3

\* the table has exactly the rows and the columns the learning parameters name
TableMatches(q, params) ==
    /\ DOMAIN q = 0 .. params.stateSize - 1
    /\ \A st \in DOMAIN q : DOMAIN q[st] = 0 .. params.actionSize - 1

C30_TableMatchesParams == TableMatches(qtable, lp)

AnalysisCall == lastOp.op \in {"getBestActionForState", "getPolicy", "getQTableStats"}

\* C31: a call of getBestActionForState, getPolicy or getQTableStats changes neither
\* the Q-table, nor the announcements, nor the state of the random generator
C31_AnalysisReadOnly ==
    AnalysisCall
        => /\ qtable = lastOp.qBefore
           /\ actionHistory = lastOp.historyBefore
           /\ rng = lastOp.rngBefore

\* a chooseAction call on a state with at least one available action
ChoseAmongAvailable ==
    lastOp.op = "chooseAction" /\ Len(getAvailableActions(lp, lastOp.state)) > 0

AvailableSet(state) ==
    LET availableActions == getAvailableActions(lp, state)
    IN  {availableActions[i] : i \in 1 .. Len(availableActions)}

\* C32: chooseAction on a state with an available action returns an available action,
\* one that moves the agent to another cell of the grid, and when the announcement
\* says exploitation its Q-value is at least that of every available action
C32_ChoosesAvailableGreedy ==
    ChoseAmongAvailable
        => /\ lastOp.action \in AvailableSet(lastOp.state)
           /\ moveResult(mapDesc, lastOp.state, lastOp.action) # lastOp.state
           /\ getAnnouncedAction(actionHistory, lastOp.state).type = "exploitation"
                => \A a \in AvailableSet(lastOp.state) :
                      ~RLess(qtable[lastOp.state][lastOp.action], qtable[lastOp.state][a])

\* an exploitation among several available actions of different Q-values
C32_Witness ==
    /\ ChoseAmongAvailable
    /\ getAnnouncedAction(actionHistory, lastOp.state).type = "exploitation"
    /\ \E a \in AvailableSet(lastOp.state) :
          RLess(qtable[lastOp.state][a], qtable[lastOp.state][lastOp.action])

\* C34: the recorded draw is the first uniform value after the call, in [0, 1), and
\* the recorded kind is exploration exactly when that draw is below epsilon; with
\* epsilon 0 the kind is exploitation and with epsilon 1 it is exploration
C34_ExploreIffBelowEpsilon ==
    ChoseAmongAvailable
        => LET info == getAnnouncedAction(actionHistory, lastOp.state)
               u == info.randomValue
           IN  /\ info.set
               /\ u = Norm(rngNext(lastOp.rngBefore), RngModulus)
               /\ 0 <= u[1] /\ u[1] < u[2]
               /\ info.type = "exploration" <=> u[1] * lp.epsilon[2] < lp.epsilon[1] * u[2]
               /\ lp.epsilon = <<0, 1>> => info.type = "exploitation"
               /\ lp.epsilon = <<1, 1>> => info.type = "exploration"

\* an exploration under the exploration rate 1/10
C34_Witness ==
    /\ ChoseAmongAvailable
    /\ lp.epsilon = <<1, 10>>
    /\ getAnnouncedAction(actionHistory, lastOp.state).type = "exploration"

\* C40: a chooseAction call on a state with an available action advances the
\* generator by exactly two steps, and a call on a state without one by none
C40_TwoDrawsPerChoice ==
    lastOp.op = "chooseAction"
        => IF Len(getAvailableActions(lp, lastOp.state)) > 0
           THEN rng = rngNext(rngNext(lastOp.rngBefore))
           ELSE rng = lastOp.rngBefore

\* an exploitation whose best action is the only one of its Q-value
C40_Witness ==
    /\ ChoseAmongAvailable
    /\ Cardinality(AvailableSet(lastOp.state)) > 1
    /\ getAnnouncedAction(actionHistory, lastOp.state).type = "exploitation"
    /\ \A a \in AvailableSet(lastOp.state) \ {lastOp.action} :
          RLess(qtable[lastOp.state][a], qtable[lastOp.state][lastOp.action])

\* the cell next to state in the direction of the action, by row and column, or the
\* state itself when there is no such cell
Neighbour(m, state, action) ==
    LET row == (state \div ncolOf(m)) + (CASE action = 1 -> 1 [] action = 3 -> -1 [] OTHER -> 0)
        col == (state % ncolOf(m)) + (CASE action = 2 -> 1 [] action = 0 -> -1 [] OTHER -> 0)
    IN  IF row \in 0 .. nrowOf(m) - 1 /\ col \in 0 .. ncolOf(m) - 1
        THEN row * ncolOf(m) + col
        ELSE state

\* C33: for every state of the grid and every action the move leads to the adjacent
\* cell in that direction if there is one and to the same state otherwise; an executed
\* step puts the agent there, and the agent's state is always an index of the grid
C33_MovesStayInGrid ==
    /\ \A st \in 0 .. stateSizeOf(mapDesc) - 1, a \in Actions :
          moveResult(mapDesc, st, a) = Neighbour(mapDesc, st, a)
    /\ agentState.currentState \in 0 .. stateSizeOf(mapDesc) - 1
    /\ StepExecuted
          => agentState.currentState
                = Neighbour(mapDesc, lastOp.state, lastOp.pendingBefore.action)

\* an executed step that moved the agent on a grid of several rows and columns
C33_Witness ==
    /\ StepExecuted
    /\ nrowOf(mapDesc) > 1 /\ ncolOf(mapDesc) > 1
    /\ agentState.currentState # lastOp.state

\* C35: each episode is counted once.  isDone is set only by a termination that is
\* counted and is cleared by every episode reset, so that while isDone holds the
\* episode under way has been counted since the last reset: no step taken there may
\* count an episode again or add to the cumulative totals
C35_EpisodeCountedOnce ==
    [][agentState.isDone => gameStats' = gameStats]_vars

\* the drop just handled appended a record to the intervention history
RecordAppended ==
    lastOp.op = "mouseUp" /\ Len(interventionHistory) > Len(lastOp.historyBefore)

\* C36: the action a successful intervention for fromState uses is the action pending
\* for execution in fromState when the agent is dropped
C36_InterventionUsesPending ==
    RecordAppended
        => /\ lastOp.pendingBefore.set
           /\ lastOp.pendingBefore.state = lastOp.fromState
           /\ lastOp.pendingBefore.action = interventionHistory[Len(interventionHistory)].action

\* C37: after a mouse press on the agent and the release that ends the drag, a
\* controller that was Paused before the press is still Paused, and when the agent
\* was not dropped on another cell the pending action is the one from before the press
C37_DragRestoresPause ==
    (lastOp.op = "mouseUp" /\ lastOp.afterMouseDown)
        => /\ lastOp.pausedAtDown => gameStatus.isPaused
           /\ ~lastOp.dropped => pendingAction = lastOp.pendingAtDown

\* C38: the interventions counted never exceed the intervention records appended.
\* The history is never shortened, so its length bounds the records appended since
\* the last reset, and each of the two counts is bounded by their sum
C38_CountsOnlySuccessful ==
    /\ episodeStats.episodeInterventions <= Len(interventionHistory)
    /\ gameStats.interventions <= Len(interventionHistory)

\* a suggestion rule applied to two distinct states of the grid
SuggestionMoved ==
    /\ lastOp.op = "rule"
    /\ lastOp.rule = "suggestion"
    /\ lastOp.params.state # lastOp.params.newState

\* C39: for distinct states of the grid the action whose Q-value the suggestion rule
\* updates is an available action of `state`: the direction it infers is available,
\* and every cell the rule changes is the cell of `state` and of such an action
C39_SuggestionUpdatesAvailable ==
    SuggestionMoved
        => /\ actionToUpdate(lastOp.params) \in AvailableSet(lastOp.params.state)
           /\ \A cell \in CellsChanged(lastOp.qBefore, lastOp.result) :
                 /\ cell[1] = lastOp.params.state
                 /\ cell[2] \in AvailableSet(lastOp.params.state)

\* a suggestion along a diagonal of a grid of several rows that changed a cell
C39_Witness ==
    /\ SuggestionMoved
    /\ lp.nrow > 1
    /\ RowDiff(lastOp.params) # 0 /\ ColDiff(lastOp.params) # 0
    /\ CellsChanged(lastOp.qBefore, lastOp.result) # {}

====
